---- MODULE Spec2Model ----
(***************************************************************************)
(* A model of the deployment-sftp extension (src/src/extension.ts): the    *)
(* profile store (readProfiles / writeProfiles over the deployments file), *)
(* credential resolution (getSSHConfig), connection set-up                 *)
(* (createSFTPConnection), the profile commands and the transfer handlers; *)
(* and of the directory deploy of its first version                        *)
(* (src/unnamed/part_001): the deploy command and uploadDirectory.         *)
(*                                                                         *)
(* JavaScript values are written as the text of their literal: "22",       *)
(* "NaN", "true", "null", "undefined".  An object of type                  *)
(* DeploymentProfile is a record over ProfileKeySet whose absent           *)
(* properties read "undefined", as a property read does in JavaScript.     *)
(***************************************************************************)
EXTENDS Integers, Sequences, FiniteSets, TLC

\* ------------------------------------------------------------------ bounds
\* Longest profile list the store holds.
MaxProfiles == 2
\* Commands and panel messages the user issues in one run.
MaxCommands == 2

\* ------------------------------------------------------------ JS values
UNDEF == "undefined"
NULL == "null"
NaN == "NaN"

\* ToBoolean of the values the model uses.
Truthy(v) == v \notin {UNDEF, NULL, NaN, "", "false", "0"}

\* --------------------------------------------------------- profile objects
\* interface DeploymentProfile: the properties, in declaration order.
ProfileKeys ==
    <<"name", "host", "port", "username", "remotePath", "deployOnSave",
      "authMethod", "privateKeyPath", "passphrase">>

ProfileKeySet == {ProfileKeys[i] : i \in 1..Len(ProfileKeys)}

Names == {"a", "b"}
AuthMethods == {"ssh-key", "password"}
KeyPaths == {"/k"}

\* A profile object from its varying properties; host, username and
\* remotePath play no part in any branch of the code and are held fixed.
MkProfile(name, port, auth, keyPath, dos, pass) ==
    [name |-> name, host |-> "h", port |-> port, username |-> "u",
     remotePath |-> "/r", deployOnSave |-> dos, authMethod |-> auth,
     privateKeyPath |-> keyPath, passphrase |-> pass]

\* Sequences over S of length at most n.
SeqUpTo(S, n) == UNION {[1..k -> S] : k \in 0..n}

\* ------------------------------------------------------------------- JSON
\* JSON.stringify of one property value: NaN has no JSON form and is
\* written as null.
JSONValue(v) == IF v = NaN THEN NULL ELSE v

\* A serializer that leaves out every falsy property.
JSONStringifyObjectDropFalsy(p) ==
    LET ks == SelectSeq(ProfileKeys, LAMBDA k : Truthy(p[k]))
    IN  [i \in 1..Len(ks) |-> <<ks[i], JSONValue(p[ks[i]])>>]

\* JSON.stringify of an object: its properties as <<key, value>> pairs;
\* a property whose value is undefined is left out.
JSONStringifyObject(p) ==
    LET ks == SelectSeq(ProfileKeys, LAMBDA k : p[k] # UNDEF)
    IN  [i \in 1..Len(ks) |-> <<ks[i], JSONValue(p[ks[i]])>>]

\* JSON.stringify of the `deployments` array.
JSONStringifyList(L) == [i \in 1..Len(L) |-> JSONStringifyObject(L[i])]

\* JSON.parse of an object, read back through the DeploymentProfile
\* properties: a key the text does not have reads undefined.
JSONParseObject(o) ==
    [k \in ProfileKeySet |->
        IF \E i \in 1..Len(o) : o[i][1] = k
        THEN o[CHOOSE i \in 1..Len(o) : o[i][1] = k][2]
        ELSE UNDEF]

JSONParseList(items) == [i \in 1..Len(items) |-> JSONParseObject(items[i])]

\* ------------------------------------------------------- deployments file
\* The state of DEPLOYMENTS_FILE.  kind: "absent" (existsSync is false),
\* "unreadable" (readFileSync throws), "garbage" (JSON.parse throws),
\* "null" (the text is the JSON null), "scalar" (a JSON number, string or
\* boolean), "object".  dep says what the object's `deployments` is:
\* "none", "notarray" or "array", and items is the array's text.
MkFile(kind, dep, items) == [kind |-> kind, dep |-> dep, items |-> items]

AbsentFile == MkFile("absent", "none", <<>>)
GarbageFile == MkFile("garbage", "none", <<>>)
ArrayFile(items) == MkFile("object", "array", items)

\* The try block returning data.deployments without the Array.isArray test:
\* a `deployments` that is no array reaches the caller, here as one element
\* whose properties all read undefined.
ReadBodyNoArrayCheck(f) ==
    LET notArray == <<[k \in ProfileKeySet |-> UNDEF]>>
    IN  CASE f.kind = "absent" -> [threw |-> FALSE, returned |-> FALSE, value |-> <<>>]
          [] f.kind \in {"unreadable", "garbage", "null"} ->
                [threw |-> TRUE, returned |-> FALSE, value |-> <<>>]
          [] f.kind = "scalar" -> [threw |-> FALSE, returned |-> TRUE, value |-> notArray]
          [] OTHER ->
                [threw |-> FALSE, returned |-> TRUE,
                 value |-> IF f.dep = "array" THEN JSONParseList(f.items) ELSE notArray]

\* What the try block of readProfiles does: threw, or returned a value from
\* inside the block (returned), or fell out of the `if`.
ReadBody(f) ==
    CASE f.kind = "absent" -> [threw |-> FALSE, returned |-> FALSE, value |-> <<>>]
      [] f.kind \in {"unreadable", "garbage"} ->
            \* fs.readFileSync or JSON.parse throws
            [threw |-> TRUE, returned |-> FALSE, value |-> <<>>]
      [] f.kind = "null" ->
            \* data is null: data.deployments throws a TypeError
            [threw |-> TRUE, returned |-> FALSE, value |-> <<>>]
      [] f.kind = "scalar" ->
            \* data.deployments is undefined
            [threw |-> FALSE, returned |-> TRUE, value |-> <<>>]
      [] OTHER ->
            [threw |-> FALSE, returned |-> TRUE,
             value |-> IF f.dep = "array" THEN JSONParseList(f.items) ELSE <<>>]

\* The catch block without its showErrorMessage.
ReadProfilesSilentCatch(f) ==
    LET b == ReadBody(f)
    IN  [value |-> b.value, warned |-> FALSE, raised |-> FALSE]

\* readProfiles(): value is what the caller gets, warned says that
\* showErrorMessage was called, raised that an exception left the function.
ReadProfiles(f) ==
    LET b == ReadBody(f)
    IN  IF b.threw
        THEN [value |-> <<>>, warned |-> TRUE, raised |-> FALSE]
        ELSE [value |-> IF b.returned THEN b.value ELSE <<>>,
              warned |-> FALSE, raised |-> FALSE]

\* How the file system answers a write: "ok", "fail" (mkdirSync or
\* writeFileSync throws before anything is written) or "partial"
\* (writeFileSync throws after it truncated the file).
IOOutcomes == {"ok", "fail", "partial"}

\* writeProfiles(profiles): the file afterwards and whether
\* showErrorMessage was called.
WriteProfiles(f, profiles, io) ==
    CASE io = "ok" -> [file |-> ArrayFile(JSONStringifyList(profiles)), warned |-> FALSE]
      [] io = "fail" -> [file |-> f, warned |-> TRUE]
      [] OTHER -> [file |-> GarbageFile, warned |-> TRUE]

\* ------------------------------------------------------------ secret store
PasswordKey(name) == "sftp-password-" \o name
PassphraseKey(name) == "sftp-passphrase-" \o name
SecretKeys == {PasswordKey(n) : n \in Names} \cup {PassphraseKey(n) : n \in Names}

\* getSecret: context.secrets.get(key); undefined when nothing is stored.
GetSecret(store, key) == store[key]

\* setSecret: context.secrets.store(key, value).
SetSecret(store, key, value) == [store EXCEPT ![key] = value]

\* deleteSecret: context.secrets.delete(key); a missing key is no error.
DeleteSecret(store, key) == [store EXCEPT ![key] = UNDEF]

\* --------------------------------------------------- credential resolution
\* interface SSHConfig; a property that was never assigned reads undefined.
MkConfig(host, port, username) ==
    [host |-> host, port |-> port, username |-> username,
     privateKey |-> UNDEF, passphrase |-> UNDEF, password |-> UNDEF, agent |-> UNDEF]

\* No configuration: what a caller holds when getSSHConfig has not returned.
NoConfig == MkConfig(UNDEF, UNDEF, UNDEF)

KeyReadError == "Failed to read private key"

\* fs.readFileSync(path, 'utf8') succeeds.
Readable(kf, path) == path \in DOMAIN kf /\ kf[path] # UNDEF

\* As the first version of the extension connected: the password and the
\* agent are both attached, whatever the authentication method.
GetSSHConfigLegacy(profile, store, kf, sock) ==
    [ok |-> TRUE, error |-> "",
     config |-> [MkConfig(profile.host, profile.port, profile.username) EXCEPT
                    !.password = GetSecret(store, PasswordKey(profile.name)),
                    !.agent = sock]]

\* The password is looked up under the passphrase key.
GetSSHConfigWrongKey(profile, store, kf, sock) ==
    LET base == MkConfig(profile.host, profile.port, profile.username)
    IN  IF profile.authMethod = "ssh-key"
        THEN IF Truthy(profile.privateKeyPath)
             THEN IF Readable(kf, profile.privateKeyPath)
                  THEN [ok |-> TRUE, error |-> "",
                        config |-> [base EXCEPT
                            !.privateKey = kf[profile.privateKeyPath],
                            !.passphrase =
                                IF Truthy(profile.passphrase)
                                THEN GetSecret(store, PassphraseKey(profile.name))
                                ELSE UNDEF]]
                  ELSE [ok |-> FALSE, error |-> KeyReadError, config |-> NoConfig]
             ELSE [ok |-> TRUE, error |-> "", config |-> [base EXCEPT !.agent = sock]]
        ELSE LET password == GetSecret(store, PassphraseKey(profile.name))
             IN  [ok |-> TRUE, error |-> "",
                  config |-> IF Truthy(password)
                             THEN [base EXCEPT !.password = password]
                             ELSE base]

\* The passphrase is fetched before the key path is looked at.
GetSSHConfigEagerPassphrase(profile, store, kf, sock) ==
    LET base == [MkConfig(profile.host, profile.port, profile.username) EXCEPT
                    !.passphrase = GetSecret(store, PassphraseKey(profile.name))]
    IN  IF profile.authMethod = "ssh-key"
        THEN IF Truthy(profile.privateKeyPath)
             THEN IF Readable(kf, profile.privateKeyPath)
                  THEN [ok |-> TRUE, error |-> "",
                        config |-> [base EXCEPT !.privateKey = kf[profile.privateKeyPath]]]
                  ELSE [ok |-> FALSE, error |-> KeyReadError, config |-> NoConfig]
             ELSE [ok |-> TRUE, error |-> "", config |-> [base EXCEPT !.agent = sock]]
        ELSE [ok |-> TRUE, error |-> "",
              config |-> [base EXCEPT !.password = GetSecret(store, PasswordKey(profile.name))]]

\* getSSHConfig(context, profile): ok with the configuration, or not ok
\* with the message of the error thrown.
GetSSHConfig(profile, store, kf, sock) ==
    LET base == MkConfig(profile.host, profile.port, profile.username)
    IN  IF profile.authMethod = "ssh-key"
        THEN IF Truthy(profile.privateKeyPath)
             THEN IF Readable(kf, profile.privateKeyPath)
                  THEN [ok |-> TRUE, error |-> "",
                        config |-> [base EXCEPT
                            !.privateKey = kf[profile.privateKeyPath],
                            !.passphrase =
                                IF Truthy(profile.passphrase)
                                THEN GetSecret(store, PassphraseKey(profile.name))
                                ELSE UNDEF]]
                  ELSE \* readFileSync throws; the catch rethrows
                       [ok |-> FALSE, error |-> KeyReadError, config |-> NoConfig]
             ELSE \* Try to use SSH agent
                  [ok |-> TRUE, error |-> "", config |-> [base EXCEPT !.agent = sock]]
        ELSE \* Password authentication
             LET password == GetSecret(store, PasswordKey(profile.name))
             IN  [ok |-> TRUE, error |-> "",
                  config |-> IF Truthy(password)
                             THEN [base EXCEPT !.password = password]
                             ELSE base]

\* ------------------------------------------------------------------ state
VARIABLES
    file,         \* the deployments file
    wArg,         \* the argument of the writeProfiles call of this run
    wDone,        \* "no", or how the file system answered that call
    wKept,        \* the file is still what that call wrote
    rOut,         \* what the last readProfiles call gave
    lastOp,       \* the last store operation: "none", "write", "read", "tamper"
    secrets,      \* context.secrets: key -> secret, UNDEF where there is none
    sshAuthSock,  \* process.env.SSH_AUTH_SOCK
    keyFiles,     \* private-key files: path -> content, UNDEF where unreadable
    connProfile,  \* createSFTPConnection: the profile it was called with
    connPc,       \* createSFTPConnection: where the invocation stands
    connConfig,   \* the configuration handed to client.connect
    connectCalls, \* calls of client.connect on this invocation's client
    connError,    \* what the promise was rejected with
    currentProfileIndex, \* the module-level active index (0-based)
    statusBarText,       \* statusBarItem.text
    notice,       \* the last notification shown to the user
    savedProfile, \* newProfile / updatedProfile / profileObj of the last save
    editPc,       \* editProfile: "idle" or "prompting"
    editProfiles, \* editProfile: its local `profiles`
    rmPc,         \* removeProfile: "idle" or "prompting"
    rmProfiles,   \* removeProfile: its local `profiles`
    swPc,         \* switchProfile: "idle" or "prompting"
    swProfiles,   \* switchProfile: its local `profiles`
    panelPc,      \* manageProfiles: "closed" or "open"
    panelProfiles,\* manageProfiles: the panel's `profiles`
    editingIndex, \* manageProfiles: the panel's editingIndex
    cmdCount,     \* commands and panel messages the user has issued
    clientOpen,   \* the client's transport connection is established and not ended
    opKind,       \* the transfer handler that ran last: "none", "deployFile", ...
    opPc,         \* that handler: "idle", "asking", "running", "returned", "finished"
    opProfile,    \* that handler's local `profile`
    opMessages,   \* the outcome messages that invocation has shown, in order
    opError,      \* the error its catch block received, "" if none
    walkTree,     \* uploadDirectory: the local tree, directory -> entries
    walkI,        \* uploadDirectory: the counter i of each invocation
    walkPending,  \* uploadDirectory: calls whose callback has not run yet
    walkIssued,   \* uploadDirectory: the sftp calls issued, in order
    walkFail,     \* uploadDirectory: the first upload failure
    walkCb        \* uploadDirectory: what the top-level cb was called with

harnessVars == <<wArg, wDone, wKept, rOut, lastOp>>
envVars == <<secrets, sshAuthSock, keyFiles>>
connVars == <<connProfile, connPc, connConfig, connectCalls, connError, clientOpen>>
opVars == <<opKind, opPc, opProfile, opMessages, opError>>
walkVars == <<walkTree, walkI, walkPending, walkIssued, walkFail, walkCb>>
cmdVars ==
    <<currentProfileIndex, statusBarText, notice, savedProfile, editPc, editProfiles,
      rmPc, rmProfiles, swPc, swProfiles, panelPc, panelProfiles, editingIndex, cmdCount>>
vars == <<file, harnessVars, envVars, connVars, cmdVars, opVars, walkVars>>

\* ------------------------------------------------ the store on its own
\* Profiles handed to writeProfiles.
StoreProfiles ==
    {MkProfile(n, p, "ssh-key", k, d, UNDEF) :
        n \in Names, p \in {"22", NaN}, k \in {UNDEF} \cup KeyPaths,
        d \in {"true", "false"}}

StoreLists == SeqUpTo(StoreProfiles, MaxProfiles)

\* Files the program finds that it did not write in this run.
ForeignFiles ==
    {MkFile(k, "none", <<>>) : k \in {"absent", "unreadable", "garbage", "null", "scalar", "object"}}
    \cup {MkFile("object", "notarray", <<>>)}
    \cup {ArrayFile(JSONStringifyList(L)) :
            L \in SeqUpTo({MkProfile("a", "22", "password", UNDEF, "false", UNDEF)}, 1)}

NoRead == [value |-> <<>>, warned |-> FALSE, raised |-> FALSE]

HarnessQuiet ==
    /\ wArg = <<>>
    /\ wDone = "no"
    /\ wKept = FALSE
    /\ rOut = NoRead
    /\ lastOp = "none"

\* A fresh installation: nothing in the secret store, no agent, no key file.
EnvQuiet ==
    /\ secrets = [k \in SecretKeys |-> UNDEF]
    /\ sshAuthSock = UNDEF
    /\ keyFiles = [k \in KeyPaths |-> UNDEF]

\* let currentProfileIndex = 0; editingIndex = null.
InitialProfileIndex == 0
NullIndex == -1

NoProfile == [k \in ProfileKeySet |-> UNDEF]
NoNotice == [level |-> "none", text |-> ""]

\* The first profile whatever the active index is.
ActiveProfileFirst(profiles, idx) == profiles[1]

\* updateStatusBar(profiles) and profiles[currentProfileIndex] || profiles[0].
ActiveProfile(profiles, idx) ==
    IF idx + 1 \in 1..Len(profiles) THEN profiles[idx + 1] ELSE profiles[1]

UpdateStatusBar(profiles, idx) ==
    IF Len(profiles) = 0
    THEN "SFTP: No Profile"
    ELSE "SFTP: " \o ActiveProfile(profiles, idx).name

\* No transfer handler has run.
OpQuiet ==
    /\ opKind = "none"
    /\ opPc = "idle"
    /\ opProfile = NoProfile
    /\ opMessages = <<>>
    /\ opError = ""

\* No uploadDirectory call.
NoFailure == [at |-> -1, dir |-> <<>>, ops |-> {}]

WalkQuiet ==
    /\ walkTree = <<>>
    /\ walkI = <<>>
    /\ walkPending = {}
    /\ walkIssued = <<>>
    /\ walkFail = NoFailure
    /\ walkCb = <<>>

\* No command pending, no panel; the status bar as activate() set it.
CmdQuiet ==
    /\ currentProfileIndex = InitialProfileIndex
    /\ statusBarText = UpdateStatusBar(ReadProfiles(file).value, InitialProfileIndex)
    /\ notice = NoNotice
    /\ savedProfile = NoProfile
    /\ editPc = "idle" /\ editProfiles = <<>>
    /\ rmPc = "idle" /\ rmProfiles = <<>>
    /\ swPc = "idle" /\ swProfiles = <<>>
    /\ panelPc = "closed" /\ panelProfiles = <<>>
    /\ editingIndex = NullIndex
    /\ cmdCount = 0
    /\ OpQuiet
    /\ WalkQuiet

\* No createSFTPConnection invocation.
ConnQuiet ==
    /\ connProfile = NoProfile
    /\ connPc = "idle"
    /\ connConfig = NoConfig
    /\ connectCalls = 0
    /\ connError = ""
    /\ clientOpen = FALSE

StoreInit ==
    /\ file \in ForeignFiles
    /\ HarnessQuiet
    /\ EnvQuiet
    /\ ConnQuiet
    /\ CmdQuiet

\* One call of writeProfiles.
StoreWrite ==
    /\ wDone = "no"
    /\ \E L \in StoreLists, io \in IOOutcomes :
        /\ file' = WriteProfiles(file, L, io).file
        /\ wArg' = L
        /\ wDone' = io
        /\ wKept' = (io = "ok")
    /\ rOut' = NoRead
    /\ lastOp' = "write"
    /\ UNCHANGED <<envVars, connVars, cmdVars, opVars, walkVars>>

\* One call of readProfiles.
StoreRead ==
    /\ rOut' = ReadProfiles(file)
    /\ lastOp' = "read"
    /\ UNCHANGED <<file, wArg, wDone, wKept, envVars, connVars, cmdVars, opVars, walkVars>>

\* The user, or another program, replaces or deletes the file.
StoreTamper ==
    /\ lastOp # "tamper"
    /\ \E f \in ForeignFiles : file' = f
    /\ wKept' = FALSE
    /\ rOut' = NoRead
    /\ lastOp' = "tamper"
    /\ UNCHANGED <<wArg, wDone, envVars, connVars, cmdVars, opVars, walkVars>>

StoreNext == StoreWrite \/ StoreRead \/ StoreTamper

SpecStore == StoreInit /\ [][StoreNext]_vars

\* ------------------------------------------------------ claims: the store
IsArrayFile(f) == f.kind = "object" /\ f.dep = "array"

\* A valid profile (spec, section 3): the required fields are there, the
\* authentication method is one of the two, and the port is an integer (NaN
\* is what parseInt leaves for a non-numeric answer to the port prompt).
ValidProfile(p) ==
    /\ p.port \notin {NaN, UNDEF, NULL}
    /\ \A k \in {"name", "host", "username", "remotePath", "authMethod"} : p[k] # UNDEF
    /\ p.authMethod \in AuthMethods

ValidList(L) == \A i \in 1..Len(L) : ValidProfile(L[i])

\* C1: writeProfiles(L) for a list L of valid profiles, followed by
\* readProfiles() with no I/O failure and no other write in between, returns
\* a list equal to L, element by element and in the same order.
C1_RoundTrip ==
    (lastOp = "read" /\ wKept /\ ValidList(wArg)) =>
        /\ Len(rOut.value) = Len(wArg)
        /\ \A i \in 1..Len(wArg) : rOut.value[i] = wArg[i]

\* A two-element list with different names, one profile without a key path
\* and with deployOnSave false, has been written and read back.
C1_Witness ==
    /\ lastOp = "read" /\ wKept /\ ValidList(wArg)
    /\ Len(wArg) = 2
    /\ wArg[1].name = "b" /\ wArg[2].name = "a"
    /\ wArg[1].privateKeyPath = UNDEF /\ wArg[1].deployOnSave = "false"
    /\ wArg[2].privateKeyPath = "/k"

\* C2: readProfiles never raises; it returns the empty list when the file
\* is absent, not parseable, has no `deployments` or has one that is not an
\* array, and returns the stored array only when `deployments` is an array.
C2_ReadTotal ==
    lastOp = "read" =>
        /\ ~rOut.raised
        /\ ~IsArrayFile(file) => rOut.value = <<>>
        /\ IsArrayFile(file) => rOut.value = JSONParseList(file.items)

\* readProfiles has run on a file whose `deployments` is not an array.
C2_Witness ==
    /\ lastOp = "read"
    /\ file.kind = "object" /\ file.dep = "notarray"
    /\ rOut.value = <<>>

\* The file is there and parses, but to something without a `deployments`
\* array.
ParsesWithoutArray(f) ==
    \/ f.kind \in {"null", "scalar"}
    \/ f.kind = "object" /\ f.dep # "array"

\* C3 as stated: a file that is present but malformed - not parseable, or
\* parseable but without the `deployments` array - gives the empty list and
\* a warning; a missing file gives no warning.
C3_Original ==
    lastOp = "read" =>
        /\ (file.kind = "garbage" \/ ParsesWithoutArray(file)) =>
                (rOut.value = <<>> /\ rOut.warned)
        /\ file.kind = "absent" => ~rOut.warned

\* C3 amended: a present but malformed file gives the empty list; the
\* warning is signalled when reading or parsing the file throws or the text
\* is the JSON null, and is not signalled when the text parses to a
\* non-null value without a `deployments` array; a missing file gives no
\* warning.
C3_Amended ==
    lastOp = "read" =>
        /\ (file.kind \in {"unreadable", "garbage"} \/ ParsesWithoutArray(file)) =>
                rOut.value = <<>>
        /\ file.kind \in {"unreadable", "garbage", "null"} => rOut.warned
        /\ (ParsesWithoutArray(file) /\ file.kind # "null") => ~rOut.warned
        /\ file.kind = "absent" => ~rOut.warned

\* readProfiles has run on an unparseable file and warned.
C3_Witness ==
    /\ lastOp = "read"
    /\ file.kind = "garbage"
    /\ rOut.warned /\ rOut.value = <<>>

\* ------------------------------------------------- createSFTPConnection
\* connPc: "idle"; "resolving" (the client exists, its handlers are
\* registered, getSSHConfig is pending); "connecting" (client.connect was
\* called); "sftp" (the client is ready, client.sftp was called);
\* "resolved" and "rejected" (the promise is settled).

\* createSFTPConnection(context, profile), up to the pending getSSHConfig.
StartConnection(profile) ==
    /\ connProfile' = profile
    /\ connPc' = "resolving"
    /\ connConfig' = NoConfig
    /\ connectCalls' = 0
    /\ connError' = ""
    /\ clientOpen' = FALSE

\* client.connect is called whether or not getSSHConfig succeeded.
ConfigSettledConnectAnyway ==
    /\ connPc = "resolving"
    /\ LET r == GetSSHConfig(connProfile, secrets, keyFiles, sshAuthSock)
       IN  /\ connConfig' = r.config
           /\ connectCalls' = connectCalls + 1
           /\ connPc' = "connecting"
           /\ connError' = r.error
    /\ UNCHANGED <<opVars, walkVars, file, harnessVars, envVars, cmdVars, connProfile, clientOpen>>

\* getSSHConfig settles: .then(config => client.connect(config)), or
\* .catch(reject).
ConfigSettled ==
    /\ connPc = "resolving"
    /\ LET r == GetSSHConfig(connProfile, secrets, keyFiles, sshAuthSock)
       IN  IF r.ok
           THEN /\ connConfig' = r.config
                /\ connectCalls' = connectCalls + 1
                /\ connPc' = "connecting"
                /\ UNCHANGED connError
           ELSE /\ connPc' = "rejected"
                /\ connError' = r.error
                /\ UNCHANGED <<connConfig, connectCalls>>
    /\ UNCHANGED <<opVars, walkVars, file, harnessVars, envVars, cmdVars, connProfile, clientOpen>>

\* client.on('ready'): client.sftp(callback) is called.
ClientReady ==
    /\ connPc = "connecting"
    /\ connPc' = "sftp"
    /\ clientOpen' = TRUE
    /\ UNCHANGED <<opVars, walkVars, file, harnessVars, envVars, cmdVars, connProfile, connConfig, connectCalls, connError>>

\* client.on('error'), or client.connect throwing inside the .then: reject.
ClientError ==
    /\ connPc = "connecting"
    /\ connPc' = "rejected"
    /\ connError' = "connect"
    /\ UNCHANGED <<opVars, walkVars, file, harnessVars, envVars, cmdVars, connProfile, connConfig, connectCalls, clientOpen>>

\* The callback of client.sftp: reject(err), or resolve({client, sftp}).
SftpOpened ==
    /\ connPc = "sftp"
    /\ \E err \in BOOLEAN :
        IF err
        THEN connPc' = "rejected" /\ connError' = "sftp"
        ELSE connPc' = "resolved" /\ UNCHANGED connError
    /\ UNCHANGED <<opVars, walkVars, file, harnessVars, envVars, cmdVars, connProfile, connConfig, connectCalls, clientOpen>>

\* ---------------------------------- credential resolution on its own
\* Profiles as the deployments file can hold them, written by this version,
\* by the first version (no authMethod) or by hand.
ConnProfiles ==
    {MkProfile(n, "22", a, k, "false", pp) :
        n \in Names, a \in AuthMethods \cup {UNDEF},
        k \in {UNDEF, ""} \cup KeyPaths, pp \in {UNDEF, "x"}}

\* The secret store holds only what setSecret put there: non-empty strings.
SecretStores == [SecretKeys -> {UNDEF, "s3cr3t"}]

Environments ==
    /\ secrets \in SecretStores
    /\ sshAuthSock \in {UNDEF, "/tmp/agent.sock"}
    /\ keyFiles \in [KeyPaths -> {UNDEF, "PEM"}]

ConnInit ==
    /\ file = AbsentFile
    /\ HarnessQuiet
    /\ Environments
    /\ connProfile \in ConnProfiles
    /\ connPc = "idle"
    /\ connConfig = NoConfig
    /\ connectCalls = 0
    /\ connError = ""
    /\ clientOpen = FALSE
    /\ CmdQuiet

\* A transfer command calls createSFTPConnection with the profile.
ConnStart ==
    /\ connPc = "idle"
    /\ StartConnection(connProfile)
    /\ UNCHANGED <<opVars, walkVars, file, harnessVars, envVars, cmdVars>>

ConnNext == ConnStart \/ ConfigSettled \/ ClientReady \/ ClientError \/ SftpOpened

SpecConn == ConnInit /\ [][ConnNext]_vars

\* ------------------------------------------ claims: credential resolution
\* getSSHConfig has settled for connProfile.
Settled == connPc \notin {"idle", "resolving"}

\* getSSHConfig returned a configuration: it was handed to client.connect.
Returned == Settled /\ connectCalls > 0

\* C4: for a profile with authMethod ssh-key and no privateKeyPath, in any
\* state of the secret store, getSSHConfig yields a configuration carrying
\* the agent reference (process.env.SSH_AUTH_SOCK) and neither password nor
\* private key nor passphrase.
C4_AgentOnly ==
    (Settled /\ connProfile.authMethod = "ssh-key" /\ ~Truthy(connProfile.privateKeyPath)) =>
        /\ Returned
        /\ connConfig.agent = sshAuthSock
        /\ connConfig.password = UNDEF
        /\ connConfig.privateKey = UNDEF
        /\ connConfig.passphrase = UNDEF

\* An agent configuration was resolved although the store holds a password
\* and a passphrase for the name and the profile carries a passphrase flag.
C4_Witness ==
    /\ Returned
    /\ connProfile.authMethod = "ssh-key" /\ connProfile.privateKeyPath = UNDEF
    /\ connProfile.passphrase = "x"
    /\ secrets[PasswordKey(connProfile.name)] # UNDEF
    /\ secrets[PassphraseKey(connProfile.name)] # UNDEF
    /\ connConfig.agent = "/tmp/agent.sock"

\* C5: for a profile with authMethod ssh-key whose privateKeyPath cannot be
\* read, getSSHConfig fails with the key-read error and returns no
\* configuration, and createSFTPConnection rejects without ever calling
\* client.connect.
C5_KeyReadFails ==
    (Settled /\ connProfile.authMethod = "ssh-key"
             /\ Truthy(connProfile.privateKeyPath)
             /\ ~Readable(keyFiles, connProfile.privateKeyPath)) =>
        /\ connPc = "rejected"
        /\ connError = KeyReadError
        /\ connectCalls = 0
        /\ connConfig = NoConfig

\* createSFTPConnection has rejected with the key-read error.
C5_Witness ==
    /\ connPc = "rejected"
    /\ connError = KeyReadError
    /\ connProfile.authMethod = "ssh-key"
    /\ connProfile.privateKeyPath = "/k"
    /\ keyFiles["/k"] = UNDEF

\* C6: for a profile with authMethod password, a value v stored under
\* sftp-password-<name> gives exactly {host, port, username, password: v};
\* no entry under that key gives {host, port, username} with no credential,
\* and no failure.
C6_PasswordConfig ==
    (Settled /\ connProfile.authMethod = "password") =>
        LET v == secrets[PasswordKey(connProfile.name)]
            base == MkConfig(connProfile.host, connProfile.port, connProfile.username)
        IN  /\ Returned
            /\ v # UNDEF => connConfig = [base EXCEPT !.password = v]
            /\ v = UNDEF => connConfig = base

\* A password configuration was resolved from a stored password, with a
\* passphrase of the same name and an agent socket around.
C6_Witness ==
    /\ Returned
    /\ connProfile.authMethod = "password"
    /\ connProfile.privateKeyPath = "/k"
    /\ secrets[PasswordKey(connProfile.name)] = "s3cr3t"
    /\ secrets[PassphraseKey(connProfile.name)] # UNDEF
    /\ sshAuthSock # UNDEF
    /\ connConfig.password = "s3cr3t"

\* The credential kinds a configuration carries.
Credentials(c) == {k \in {"agent", "privateKey", "password"} : c[k] # UNDEF}

\* C7: for every profile and secret store, the configuration getSSHConfig
\* returns carries at most one of agent reference, private key and
\* password, and a passphrase only together with a private key.
C7_OneCredential ==
    Returned =>
        /\ Cardinality(Credentials(connConfig)) <= 1
        /\ connConfig.passphrase # UNDEF => connConfig.privateKey # UNDEF

\* A private key with its passphrase was resolved while the store also
\* holds a password for the name and an agent socket is set.
C7_Witness ==
    /\ Returned
    /\ connConfig.privateKey = "PEM"
    /\ connConfig.passphrase = "s3cr3t"
    /\ secrets[PasswordKey(connProfile.name)] # UNDEF
    /\ sshAuthSock # UNDEF

\* ------------------------------------------------------- profile commands
\* Each command is cut at its prompts: the part up to the first prompt
\* that follows a readProfiles, and the part that runs once the prompts
\* are answered.  A prompt that is dismissed ends the command.  The awaited
\* secret-store calls at the end of a handler are taken with it.  The file
\* system answers every write ("ok").

\* parseInt(portStr, 10).
NumericStrings == {"22", "2222"}
ParseInt(str) == IF str \in NumericStrings THEN str ELSE NaN

\* What the user types at the port prompt.
PortInputs == {"22"}

Info(text) == [level |-> "info", text |-> text]
Warning(text) == [level |-> "warning", text |-> text]
ErrorMsg(text) == [level |-> "error", text |-> text]

\* profiles with element i (0-based) replaced, or removed.
ReplaceAt(profiles, i, p) == [profiles EXCEPT ![i + 1] = p]
Splice(profiles, i) ==
    [j \in 1..(Len(profiles) - 1) |-> IF j < i + 1 THEN profiles[j] ELSE profiles[j + 1]]

\* The answers to the prompts of addProfile and editProfile after the
\* remote path: authentication method, key source, key file dialog,
\* passphrase box, deploy-on-save pick.  UNDEF is a prompt that was
\* dismissed or never shown: the key source is asked for ssh-key only, the
\* key file after 'custom' only, the passphrase after a key file only.
AuthAnswers ==
    {ans \in [authMethod : AuthMethods, useCustomKey : {UNDEF, "agent", "custom"},
              keyPath : {UNDEF} \cup KeyPaths, passphrase : {UNDEF, "", "pp"},
              deployOnSave : {UNDEF, "yes", "no"}] :
        /\ ans.authMethod = "password" => ans.useCustomKey = UNDEF
        /\ ans.useCustomKey # "custom" => ans.keyPath = UNDEF
        /\ ans.keyPath = UNDEF => ans.passphrase = UNDEF}

\* The key file dialog was shown and a file was chosen.
CustomKeyChosen(ans) ==
    ans.authMethod = "ssh-key" /\ ans.useCustomKey = "custom" /\ ans.keyPath # UNDEF

\* The local `passphrase`: set only by the passphrase box.
PassphraseOf(ans) == IF CustomKeyChosen(ans) THEN ans.passphrase ELSE UNDEF

DeployOnSaveOf(ans) == IF ans.deployOnSave = "yes" THEN "true" ELSE "false"

\* addProfile with the passphrase kept as a property of newProfile.
AddProfileKeepsPassphrase(name, portStr, ans) ==
    LET profiles == ReadProfiles(file).value
        newProfile ==
            MkProfile(name, ParseInt(portStr), ans.authMethod,
                      IF CustomKeyChosen(ans) THEN ans.keyPath ELSE UNDEF,
                      DeployOnSaveOf(ans), PassphraseOf(ans))
        pushed == Append(profiles, newProfile)
        passphrase == PassphraseOf(ans)
    IN  /\ cmdCount < MaxCommands
        /\ Len(profiles) < MaxProfiles
        /\ file' = WriteProfiles(file, pushed, "ok").file
        /\ secrets' = IF Truthy(passphrase)
                      THEN SetSecret(secrets, PassphraseKey(name), passphrase)
                      ELSE secrets
        /\ notice' = Info("Added SFTP profile: " \o name)
        /\ statusBarText' = UpdateStatusBar(pushed, currentProfileIndex)
        /\ savedProfile' = newProfile
        /\ cmdCount' = cmdCount + 1
        /\ UNCHANGED <<opVars, walkVars, harnessVars, sshAuthSock, keyFiles, connVars, currentProfileIndex,
                       editPc, editProfiles, rmPc, rmProfiles, swPc, swProfiles,
                       panelPc, panelProfiles, editingIndex>>


\* addProfile writing the new profile alone, as if the stored list had not
\* been read at the moment of the save.
AddProfileOverwrites(name, portStr, ans) ==
    LET profiles == ReadProfiles(file).value
        newProfile ==
            MkProfile(name, ParseInt(portStr), ans.authMethod,
                      IF CustomKeyChosen(ans) THEN ans.keyPath ELSE UNDEF,
                      DeployOnSaveOf(ans), UNDEF)
        pushed == <<newProfile>>
        passphrase == PassphraseOf(ans)
    IN  /\ cmdCount < MaxCommands
        /\ Len(profiles) < MaxProfiles
        /\ file' = WriteProfiles(file, pushed, "ok").file
        /\ secrets' = IF Truthy(passphrase)
                      THEN SetSecret(secrets, PassphraseKey(name), passphrase)
                      ELSE secrets
        /\ notice' = Info("Added SFTP profile: " \o name)
        /\ statusBarText' = UpdateStatusBar(pushed, currentProfileIndex)
        /\ savedProfile' = newProfile
        /\ cmdCount' = cmdCount + 1
        /\ UNCHANGED <<opVars, walkVars, harnessVars, sshAuthSock, keyFiles, connVars, currentProfileIndex,
                       editPc, editProfiles, rmPc, rmProfiles, swPc, swProfiles,
                       panelPc, panelProfiles, editingIndex>>

\* addProfile: the prompts, then read, push, write, setSecret, message,
\* status bar.
AddProfile(name, portStr, ans) ==
    LET profiles == ReadProfiles(file).value
        newProfile ==
            MkProfile(name, ParseInt(portStr), ans.authMethod,
                      IF CustomKeyChosen(ans) THEN ans.keyPath ELSE UNDEF,
                      DeployOnSaveOf(ans), UNDEF)
        pushed == Append(profiles, newProfile)
        passphrase == PassphraseOf(ans)
    IN  /\ cmdCount < MaxCommands
        /\ Len(profiles) < MaxProfiles
        /\ file' = WriteProfiles(file, pushed, "ok").file
        /\ secrets' = IF Truthy(passphrase)
                      THEN SetSecret(secrets, PassphraseKey(name), passphrase)
                      ELSE secrets
        /\ notice' = Info("Added SFTP profile: " \o name)
        /\ statusBarText' = UpdateStatusBar(pushed, currentProfileIndex)
        /\ savedProfile' = newProfile
        /\ cmdCount' = cmdCount + 1
        /\ UNCHANGED <<opVars, walkVars, harnessVars, sshAuthSock, keyFiles, connVars, currentProfileIndex,
                       editPc, editProfiles, rmPc, rmProfiles, swPc, swProfiles,
                       panelPc, panelProfiles, editingIndex>>

\* editProfile up to its first prompt.
EditStart ==
    LET profiles == ReadProfiles(file).value
    IN  /\ cmdCount < MaxCommands
        /\ editPc = "idle"
        /\ IF Len(profiles) = 0
           THEN /\ notice' = Warning("No SFTP deployment profiles to edit.")
                /\ UNCHANGED <<editPc, editProfiles>>
           ELSE /\ editPc' = "prompting"
                /\ editProfiles' = profiles
                /\ UNCHANGED notice
        /\ cmdCount' = cmdCount + 1
        /\ UNCHANGED <<opVars, walkVars, file, harnessVars, envVars, connVars, currentProfileIndex,
                       statusBarText, savedProfile, rmPc, rmProfiles, swPc, swProfiles,
                       panelPc, panelProfiles, editingIndex>>


\* editProfile applying the edit to the list as the file holds it now.
EditCommitFreshList(index, name, portStr, ans) ==
    /\ editPc = "prompting"
    /\ index \in 0..(Len(ReadProfiles(file).value) - 1)
    /\ LET fresh == ReadProfiles(file).value
           profile == fresh[index + 1]
           updatedProfile ==
               MkProfile(name, ParseInt(portStr), ans.authMethod,
                         IF CustomKeyChosen(ans) THEN ans.keyPath ELSE profile.privateKeyPath,
                         DeployOnSaveOf(ans), UNDEF)
           profiles == ReplaceAt(fresh, index, updatedProfile)
           passphrase == PassphraseOf(ans)
       IN  /\ file' = WriteProfiles(file, profiles, "ok").file
           /\ secrets' = IF passphrase # UNDEF
                         THEN IF Truthy(passphrase)
                              THEN SetSecret(secrets, PassphraseKey(name), passphrase)
                              ELSE DeleteSecret(secrets, PassphraseKey(name))
                         ELSE secrets
           /\ notice' = Info("Edited SFTP profile: " \o name)
           /\ statusBarText' = UpdateStatusBar(profiles, currentProfileIndex)
           /\ savedProfile' = updatedProfile
    /\ editPc' = "idle"
    /\ editProfiles' = <<>>
    /\ UNCHANGED <<opVars, walkVars, harnessVars, sshAuthSock, keyFiles, connVars, currentProfileIndex,
                   rmPc, rmProfiles, swPc, swProfiles, panelPc, panelProfiles,
                   editingIndex, cmdCount>>


\* editProfile moving the secrets of a renamed profile: the entries under
\* the old name are copied to the new name and deleted.
EditCommitMovesSecrets(index, name, portStr, ans) ==
    /\ editPc = "prompting"
    /\ index \in 0..(Len(editProfiles) - 1)
    /\ LET profile == editProfiles[index + 1]
           updatedProfile ==
               MkProfile(name, ParseInt(portStr), ans.authMethod,
                         IF CustomKeyChosen(ans) THEN ans.keyPath ELSE profile.privateKeyPath,
                         DeployOnSaveOf(ans), UNDEF)
           profiles == ReplaceAt(editProfiles, index, updatedProfile)
           passphrase == PassphraseOf(ans)
           moved == IF name = profile.name
                    THEN secrets
                    ELSE DeleteSecret(
                             DeleteSecret(
                                 SetSecret(SetSecret(secrets, PasswordKey(name),
                                                     GetSecret(secrets, PasswordKey(profile.name))),
                                           PassphraseKey(name),
                                           GetSecret(secrets, PassphraseKey(profile.name))),
                                 PasswordKey(profile.name)),
                             PassphraseKey(profile.name))
       IN  /\ file' = WriteProfiles(file, profiles, "ok").file
           /\ secrets' = IF passphrase # UNDEF
                         THEN IF Truthy(passphrase)
                              THEN SetSecret(moved, PassphraseKey(name), passphrase)
                              ELSE DeleteSecret(moved, PassphraseKey(name))
                         ELSE moved
           /\ notice' = Info("Edited SFTP profile: " \o name)
           /\ statusBarText' = UpdateStatusBar(profiles, currentProfileIndex)
           /\ savedProfile' = updatedProfile
    /\ editPc' = "idle"
    /\ editProfiles' = <<>>
    /\ UNCHANGED <<opVars, walkVars, harnessVars, sshAuthSock, keyFiles, connVars, currentProfileIndex,
                   rmPc, rmProfiles, swPc, swProfiles, panelPc, panelProfiles,
                   editingIndex, cmdCount>>

\* editProfile once every prompt is answered: profile `index` of the local
\* list is replaced, the local list is written.
EditCommit(index, name, portStr, ans) ==
    /\ editPc = "prompting"
    /\ index \in 0..(Len(editProfiles) - 1)
    /\ LET profile == editProfiles[index + 1]
           updatedProfile ==
               MkProfile(name, ParseInt(portStr), ans.authMethod,
                         IF CustomKeyChosen(ans) THEN ans.keyPath ELSE profile.privateKeyPath,
                         DeployOnSaveOf(ans), UNDEF)
           profiles == ReplaceAt(editProfiles, index, updatedProfile)
           passphrase == PassphraseOf(ans)
       IN  /\ file' = WriteProfiles(file, profiles, "ok").file
           /\ secrets' = IF passphrase # UNDEF
                         THEN IF Truthy(passphrase)
                              THEN SetSecret(secrets, PassphraseKey(name), passphrase)
                              ELSE DeleteSecret(secrets, PassphraseKey(name))
                         ELSE secrets
           /\ notice' = Info("Edited SFTP profile: " \o name)
           /\ statusBarText' = UpdateStatusBar(profiles, currentProfileIndex)
           /\ savedProfile' = updatedProfile
    /\ editPc' = "idle"
    /\ editProfiles' = <<>>
    /\ UNCHANGED <<opVars, walkVars, harnessVars, sshAuthSock, keyFiles, connVars, currentProfileIndex,
                   rmPc, rmProfiles, swPc, swProfiles, panelPc, panelProfiles,
                   editingIndex, cmdCount>>

\* A prompt of editProfile is dismissed.
EditCancel ==
    /\ editPc = "prompting"
    /\ editPc' = "idle"
    /\ editProfiles' = <<>>
    /\ UNCHANGED <<opVars, walkVars, file, harnessVars, envVars, connVars, currentProfileIndex, statusBarText,
                   notice, savedProfile, rmPc, rmProfiles, swPc, swProfiles,
                   panelPc, panelProfiles, editingIndex, cmdCount>>

\* removeProfile up to its prompt.
RemoveStart ==
    LET profiles == ReadProfiles(file).value
    IN  /\ cmdCount < MaxCommands
        /\ rmPc = "idle"
        /\ IF Len(profiles) = 0
           THEN /\ notice' = Warning("No SFTP deployment profiles to remove.")
                /\ UNCHANGED <<rmPc, rmProfiles>>
           ELSE /\ rmPc' = "prompting"
                /\ rmProfiles' = profiles
                /\ UNCHANGED notice
        /\ cmdCount' = cmdCount + 1
        /\ UNCHANGED <<opVars, walkVars, file, harnessVars, envVars, connVars, currentProfileIndex,
                       statusBarText, savedProfile, editPc, editProfiles, swPc, swProfiles,
                       panelPc, panelProfiles, editingIndex>>

\* removeProfile once a profile is picked: splice, write, delete both
\* secrets, message, status bar.
RemovePick(index) ==
    /\ rmPc = "prompting"
    /\ index \in 0..(Len(rmProfiles) - 1)
    /\ LET removed == rmProfiles[index + 1]
           profiles == Splice(rmProfiles, index)
       IN  /\ file' = WriteProfiles(file, profiles, "ok").file
           /\ secrets' = DeleteSecret(DeleteSecret(secrets, PasswordKey(removed.name)),
                                      PassphraseKey(removed.name))
           /\ notice' = Info("Removed SFTP profile: " \o removed.name)
           /\ statusBarText' = UpdateStatusBar(profiles, currentProfileIndex)
    /\ rmPc' = "idle"
    /\ rmProfiles' = <<>>
    /\ UNCHANGED <<opVars, walkVars, harnessVars, sshAuthSock, keyFiles, connVars, currentProfileIndex,
                   savedProfile, editPc, editProfiles, swPc, swProfiles,
                   panelPc, panelProfiles, editingIndex, cmdCount>>

\* The pick of removeProfile is dismissed.
RemoveCancel ==
    /\ rmPc = "prompting"
    /\ rmPc' = "idle"
    /\ rmProfiles' = <<>>
    /\ UNCHANGED <<opVars, walkVars, file, harnessVars, envVars, connVars, currentProfileIndex, statusBarText,
                   notice, savedProfile, editPc, editProfiles, swPc, swProfiles,
                   panelPc, panelProfiles, editingIndex, cmdCount>>

\* switchProfile up to its pick.
SwitchStart ==
    LET profiles == ReadProfiles(file).value
    IN  /\ cmdCount < MaxCommands
        /\ swPc = "idle"
        /\ IF Len(profiles) = 0
           THEN /\ notice' = Warning("No SFTP deployment profiles found.")
                /\ UNCHANGED <<swPc, swProfiles>>
           ELSE /\ swPc' = "prompting"
                /\ swProfiles' = profiles
                /\ UNCHANGED notice
        /\ cmdCount' = cmdCount + 1
        /\ UNCHANGED <<opVars, walkVars, file, harnessVars, envVars, connVars, currentProfileIndex,
                       statusBarText, savedProfile, editPc, editProfiles, rmPc, rmProfiles,
                       panelPc, panelProfiles, editingIndex>>

\* switchProfile once a profile is picked.
SwitchPick(index) ==
    /\ swPc = "prompting"
    /\ index \in 0..(Len(swProfiles) - 1)
    /\ currentProfileIndex' = index
    /\ statusBarText' = UpdateStatusBar(swProfiles, index)
    /\ swPc' = "idle"
    /\ swProfiles' = <<>>
    /\ UNCHANGED <<opVars, walkVars, file, harnessVars, envVars, connVars, notice, savedProfile,
                   editPc, editProfiles, rmPc, rmProfiles,
                   panelPc, panelProfiles, editingIndex, cmdCount>>

\* The pick of switchProfile is dismissed.
SwitchCancel ==
    /\ swPc = "prompting"
    /\ swPc' = "idle"
    /\ swProfiles' = <<>>
    /\ UNCHANGED <<opVars, walkVars, file, harnessVars, envVars, connVars, currentProfileIndex, statusBarText,
                   notice, savedProfile, editPc, editProfiles, rmPc, rmProfiles,
                   panelPc, panelProfiles, editingIndex, cmdCount>>

\* ------------------------------------------------ manage-profiles panel
\* The panel keeps `profiles` and editingIndex for as long as it is open;
\* the page it shows is getHtml(profiles, editingIndex, ...), so the row
\* buttons carry the indices of `profiles` and the hidden form field carries
\* editingIndex ('' when it is null, and after the page's Add button).

\* manageProfiles: the panel is created, `profiles` is read.
PanelOpen ==
    /\ cmdCount < MaxCommands
    /\ panelPc = "closed"
    /\ panelPc' = "open"
    /\ panelProfiles' = ReadProfiles(file).value
    /\ editingIndex' = NullIndex
    /\ cmdCount' = cmdCount + 1
    /\ UNCHANGED <<opVars, walkVars, file, harnessVars, envVars, connVars, currentProfileIndex, statusBarText,
                   notice, savedProfile, editPc, editProfiles, rmPc, rmProfiles,
                   swPc, swProfiles>>

\* msg.type === 'edit'.
PanelEdit(index) ==
    /\ cmdCount < MaxCommands
    /\ panelPc = "open"
    /\ index \in 0..(Len(panelProfiles) - 1)
    /\ editingIndex' = index
    /\ cmdCount' = cmdCount + 1
    /\ UNCHANGED <<opVars, walkVars, file, harnessVars, envVars, connVars, currentProfileIndex, statusBarText,
                   notice, savedProfile, editPc, editProfiles, rmPc, rmProfiles,
                   swPc, swProfiles, panelPc, panelProfiles>>

\* As the first version of the panel removed a profile: no secret is deleted.
PanelRemoveKeepSecrets(index) ==
    /\ cmdCount < MaxCommands
    /\ panelPc = "open"
    /\ index \in 0..(Len(panelProfiles) - 1)
    /\ LET profiles == Splice(panelProfiles, index)
       IN  /\ file' = WriteProfiles(file, profiles, "ok").file
           /\ panelProfiles' = profiles
    /\ editingIndex' = NullIndex
    /\ cmdCount' = cmdCount + 1
    /\ UNCHANGED <<opVars, walkVars, harnessVars, envVars, connVars, currentProfileIndex, statusBarText,
                   notice, savedProfile, editPc, editProfiles, rmPc, rmProfiles,
                   swPc, swProfiles, panelPc>>

\* msg.type === 'remove'.
PanelRemove(index) ==
    /\ cmdCount < MaxCommands
    /\ panelPc = "open"
    /\ index \in 0..(Len(panelProfiles) - 1)
    /\ LET removed == panelProfiles[index + 1]
           profiles == Splice(panelProfiles, index)
       IN  /\ file' = WriteProfiles(file, profiles, "ok").file
           /\ secrets' = DeleteSecret(DeleteSecret(secrets, PasswordKey(removed.name)),
                                      PassphraseKey(removed.name))
           /\ panelProfiles' = profiles
    /\ editingIndex' = NullIndex
    /\ cmdCount' = cmdCount + 1
    /\ UNCHANGED <<opVars, walkVars, harnessVars, sshAuthSock, keyFiles, connVars, currentProfileIndex,
                   statusBarText, notice, savedProfile, editPc, editProfiles,
                   rmPc, rmProfiles, swPc, swProfiles, panelPc>>

\* msg.type === 'save': idx is the hidden field, NullIndex standing for ''.
PanelSave(name, portStr, authMethod, deployOnSave, idx) ==
    /\ cmdCount < MaxCommands
    /\ panelPc = "open"
    /\ idx \in {NullIndex, editingIndex}
    /\ idx = NullIndex => Len(panelProfiles) < MaxProfiles
    /\ LET profileObj ==
               MkProfile(name, ParseInt(portStr), authMethod, UNDEF,
                         IF deployOnSave THEN "true" ELSE "false", UNDEF)
           profiles == IF idx = NullIndex
                       THEN Append(panelProfiles, profileObj)
                       ELSE ReplaceAt(panelProfiles, idx, profileObj)
       IN  /\ file' = WriteProfiles(file, profiles, "ok").file
           /\ panelProfiles' = profiles
           /\ statusBarText' = UpdateStatusBar(profiles, currentProfileIndex)
           /\ savedProfile' = profileObj
    /\ editingIndex' = NullIndex
    /\ cmdCount' = cmdCount + 1
    /\ UNCHANGED <<opVars, walkVars, harnessVars, envVars, connVars, currentProfileIndex, notice,
                   editPc, editProfiles, rmPc, rmProfiles, swPc, swProfiles, panelPc>>

\* ----------------------------------------------------- transfer handlers
\* deployFile, downloadFile, deleteFile, diffFile and the
\* onDidSaveTextDocument handler ("autoDeploy") share one shape: read the
\* profiles, pick the active one, possibly ask the user, then inside a try
\* await createSFTPConnection, issue one sftp call whose callback ends the
\* client, and show the success message after the try or the failure
\* message in the catch.  connPc = "resolved" is the state in which the
\* sftp call is out and its callback has not run.  One handler runs at a
\* time.
OpKinds == {"deployFile", "downloadFile", "deleteFile", "diffFile", "autoDeploy"}

OpFree == opPc \in {"idle", "returned", "finished"} /\ connPc = "idle"

\* The message after the try block; diffFile opens the diff editor instead.
SuccessText(kind, name) ==
    CASE kind = "deployFile" -> "Deployed file to " \o name
      [] kind = "downloadFile" -> "Downloaded file from " \o name
      [] kind = "deleteFile" -> "Deleted file from " \o name
      [] kind = "autoDeploy" -> "Auto-deployed file to " \o name
      [] OTHER -> ""

\* The message of the catch block: `<what> failed: ${error.message}`.
FailureText(kind, message) ==
    CASE kind = "deployFile" -> "Deploy failed: " \o message
      [] kind = "downloadFile" -> "Download failed: " \o message
      [] kind = "deleteFile" -> "Delete failed: " \o message
      [] kind = "diffFile" -> "Diff failed: " \o message
      [] OTHER -> "Auto-deploy failed: " \o message

\* The message of the error the sftp call of the handler fails with.
RemoteError(kind) ==
    CASE kind \in {"deployFile", "autoDeploy"} -> "put"
      [] kind = "deleteFile" -> "unlink"
      [] OTHER -> "get"

\* A handler whose save-event branch does not look at deployOnSave.
StartHandlerUngated(kind, ask) ==
    LET profiles == ReadProfiles(file).value
        profile == ActiveProfile(profiles, currentProfileIndex)
    IN  /\ OpFree
        /\ opKind' = kind
        /\ opMessages' = <<>>
        /\ opError' = ""
        /\ IF Len(profiles) = 0
           THEN /\ notice' = IF kind = "autoDeploy"
                             THEN notice
                             ELSE Warning("No SFTP deployment profiles found.")
                /\ opPc' = "returned"
                /\ opProfile' = NoProfile
                /\ UNCHANGED connVars
           ELSE /\ opProfile' = profile
                /\ UNCHANGED notice
                /\ IF ask
                   THEN opPc' = "asking" /\ UNCHANGED connVars
                   ELSE opPc' = "running" /\ StartConnection(profile)


\* A prompt answered by a handler that takes the active profile anew
\* instead of the `profile` it captured before the prompt.
AnsweredActiveProfile(kind) ==
    /\ opKind = kind
    /\ opPc = "asking"
    /\ opPc' = "running"
    /\ StartConnection(ActiveProfile(ReadProfiles(file).value, currentProfileIndex))
    /\ UNCHANGED <<walkVars, file, harnessVars, envVars, cmdVars, opKind, opProfile,
                   opMessages, opError>>

\* A handler up to its first await: readProfiles, the empty-list return, the
\* active profile, the deployOnSave gate of the save event, and then the
\* prompt (ask) or the call of createSFTPConnection.
StartHandler(kind, ask) ==
    LET profiles == ReadProfiles(file).value
        profile == ActiveProfile(profiles, currentProfileIndex)
    IN  /\ OpFree
        /\ opKind' = kind
        /\ opMessages' = <<>>
        /\ opError' = ""
        /\ IF Len(profiles) = 0
           THEN /\ notice' = IF kind = "autoDeploy"
                             THEN notice
                             ELSE Warning("No SFTP deployment profiles found.")
                /\ opPc' = "returned"
                /\ opProfile' = NoProfile
                /\ UNCHANGED connVars
           ELSE /\ opProfile' = profile
                /\ UNCHANGED notice
                /\ IF kind = "autoDeploy" /\ ~Truthy(profile.deployOnSave)
                   THEN opPc' = "returned" /\ UNCHANGED connVars
                   ELSE IF ask
                        THEN opPc' = "asking" /\ UNCHANGED connVars
                        ELSE opPc' = "running" /\ StartConnection(profile)

\* The prompt of a handler is answered: the try block is entered.
Answered(kind) ==
    /\ opKind = kind
    /\ opPc = "asking"
    /\ opPc' = "running"
    /\ StartConnection(opProfile)
    /\ UNCHANGED <<walkVars, file, harnessVars, envVars, cmdVars, opKind, opProfile,
                   opMessages, opError>>

\* The prompt of a handler is dismissed: return.
Dismissed(kind) ==
    /\ opKind = kind
    /\ opPc = "asking"
    /\ opPc' = "returned"
    /\ UNCHANGED <<walkVars, file, harnessVars, envVars, connVars, cmdVars, opKind,
                   opProfile, opMessages, opError>>

\* The callback of the handler's sftp call: client.end(), then reject(err)
\* and the catch's message, or resolve() and what follows the try.
RemoteCallback(kind) ==
    /\ opKind = kind
    /\ opPc = "running"
    /\ connPc = "resolved"
    /\ clientOpen' = FALSE
    /\ \E err \in BOOLEAN :
        IF err
        THEN /\ opError' = RemoteError(kind)
             /\ notice' = ErrorMsg(FailureText(kind, RemoteError(kind)))
             /\ opMessages' = Append(opMessages, notice')
        ELSE /\ UNCHANGED opError
             /\ IF kind = "diffFile"
                THEN UNCHANGED <<notice, opMessages>>
                ELSE /\ notice' = Info(SuccessText(kind, opProfile.name))
                     /\ opMessages' = Append(opMessages, notice')
    /\ opPc' = "finished"
    /\ connPc' = "idle"
    /\ UNCHANGED <<walkVars, file, harnessVars, envVars, connProfile, connConfig,
                   connectCalls, connError, currentProfileIndex, statusBarText,
                   savedProfile, editPc, editProfiles, rmPc, rmProfiles, swPc,
                   swProfiles, panelPc, panelProfiles, editingIndex, cmdCount,
                   opKind, opProfile>>

\* A catch block that shows nothing.
CaughtSilently(kind) ==
    /\ opKind = kind
    /\ opPc = "running"
    /\ connPc = "rejected"
    /\ opError' = connError
    /\ opPc' = "finished"
    /\ connPc' = "idle"
    /\ UNCHANGED <<walkVars, file, harnessVars, envVars, connProfile, connConfig,
                   connectCalls, connError, clientOpen, currentProfileIndex,
                   statusBarText, notice, savedProfile, editPc, editProfiles, rmPc,
                   rmProfiles, swPc, swProfiles, panelPc, panelProfiles,
                   editingIndex, cmdCount, opKind, opProfile, opMessages>>

\* createSFTPConnection rejected: the handler's catch shows the failure
\* message; nothing in it touches the client.
Caught(kind) ==
    /\ opKind = kind
    /\ opPc = "running"
    /\ connPc = "rejected"
    /\ opError' = connError
    /\ notice' = ErrorMsg(FailureText(kind, connError))
    /\ opMessages' = Append(opMessages, notice')
    /\ opPc' = "finished"
    /\ connPc' = "idle"
    /\ UNCHANGED <<walkVars, file, harnessVars, envVars, connProfile, connConfig,
                   connectCalls, connError, clientOpen, currentProfileIndex,
                   statusBarText, savedProfile, editPc, editProfiles, rmPc,
                   rmProfiles, swPc, swProfiles, panelPc, panelProfiles,
                   editingIndex, cmdCount, opKind, opProfile>>

\* What a handler's first part leaves alone.
StartFrame ==
    UNCHANGED <<walkVars, file, harnessVars, envVars, currentProfileIndex, statusBarText,
                savedProfile, editPc, editProfiles, rmPc, rmProfiles,
                swPc, swProfiles, panelPc, panelProfiles, editingIndex>>

\* ------------------------------------------------------------ deployFile
\* deployFile up to the pending createSFTPConnection.
DeployFile ==
    /\ cmdCount < MaxCommands
    /\ StartHandler("deployFile", FALSE)
    /\ cmdCount' = cmdCount + 1
    /\ StartFrame

\* The callback of sftp.fastPut: client.end(), then the success message or
\* the catch's failure message.
DeployPutDone == RemoteCallback("deployFile")

\* createSFTPConnection rejected: the catch shows the failure message.
DeployFailed == Caught("deployFile")

\* ---------------------------------------------------------- downloadFile
\* downloadFile up to its save dialog.
DownloadFile == StartHandler("downloadFile", TRUE) /\ UNCHANGED cmdCount /\ StartFrame

DownloadTargetChosen == Answered("downloadFile")

\* if (!saveUri) {return;}
DownloadDismissed == Dismissed("downloadFile")

\* The callback of sftp.fastGet.
DownloadGetDone == RemoteCallback("downloadFile")

DownloadFailed == Caught("downloadFile")

\* ------------------------------------------------------------ deleteFile
\* deleteFile up to its confirmation.
DeleteFile == StartHandler("deleteFile", TRUE) /\ UNCHANGED cmdCount /\ StartFrame

DeleteConfirmed == Answered("deleteFile")

\* if (confirm !== 'Yes') {return;}
DeleteDeclined == Dismissed("deleteFile")

\* The callback of sftp.unlink.
DeleteUnlinkDone == RemoteCallback("deleteFile")

DeleteFailed == Caught("deleteFile")

\* -------------------------------------------------------------- diffFile
DiffFile == StartHandler("diffFile", FALSE) /\ UNCHANGED cmdCount /\ StartFrame

\* The callback of sftp.fastGet; on success vscode.diff is executed.
DiffGetDone == RemoteCallback("diffFile")

DiffFailed == Caught("diffFile")

\* ------------------------------------------------- onDidSaveTextDocument
\* A document is saved: the handler up to the pending createSFTPConnection.
DocumentSaved == StartHandler("autoDeploy", FALSE) /\ UNCHANGED cmdCount /\ StartFrame

AutoDeployPutDone == RemoteCallback("autoDeploy")

AutoDeployFailed == Caught("autoDeploy")

\* ------------------------------------------------- the extension at work
\* A workspace without a deployments file, or with one profile from an
\* earlier session; passwords that the first version of the extension
\* stored may still be in the secret store, passphrases are not.
CmdInit ==
    /\ file \in {AbsentFile,
                  ArrayFile(JSONStringifyList(
                      <<MkProfile("a", "22", "password", UNDEF, "false", UNDEF)>>))}
    /\ HarnessQuiet
    /\ secrets \in {st \in SecretStores :
                        /\ \A n \in Names : st[PassphraseKey(n)] = UNDEF
                        /\ st[PasswordKey("b")] = UNDEF}
    /\ sshAuthSock = "/tmp/agent.sock"
    /\ keyFiles = [k \in KeyPaths |-> "PEM"]
    /\ ConnQuiet
    /\ CmdQuiet

Indices == 0..(MaxProfiles - 1)

CmdNext ==
    \/ \E name \in Names, portStr \in PortInputs, ans \in AuthAnswers :
            AddProfile(name, portStr, ans)
    \/ EditStart
    \/ \E index \in Indices, name \in Names, portStr \in PortInputs, ans \in AuthAnswers :
            EditCommit(index, name, portStr, ans)
    \/ EditCancel
    \/ RemoveStart
    \/ \E index \in Indices : RemovePick(index)
    \/ RemoveCancel
    \/ SwitchStart
    \/ \E index \in Indices : SwitchPick(index)
    \/ SwitchCancel
    \/ PanelOpen
    \/ \E index \in Indices : PanelEdit(index)
    \/ \E index \in Indices : PanelRemove(index)
    \/ \E name \in Names, portStr \in PortInputs, authMethod \in AuthMethods,
          deployOnSave \in BOOLEAN, idx \in {NullIndex} \cup Indices :
            PanelSave(name, portStr, authMethod, deployOnSave, idx)
    \/ DeployFile
    \/ ConfigSettled
    \/ ClientReady
    \/ ClientError
    \/ SftpOpened
    \/ DeployPutDone
    \/ DeployFailed

SpecCmd == CmdInit /\ [][CmdNext]_vars

\* ------------------------------------------- the transfer handlers at work
\* The profiles of the transfer runs: key authentication with a key file;
\* "a" deploys on save, "b" does not.
XferProfiles ==
    {MkProfile("a", "22", "ssh-key", "/k", "true", UNDEF),
     MkProfile("b", "22", "ssh-key", "/k", "false", UNDEF)}

XferLists == SeqUpTo(XferProfiles, MaxProfiles)

\* The extension some time into a session: any profile list in the file, the
\* active index wherever earlier switchProfile calls left it (removals and
\* edits of the file since then can have made it out of range), the status
\* bar as the last updateStatusBar call set it; the key file readable or not.
XferInit ==
    /\ \E L \in XferLists : file = ArrayFile(JSONStringifyList(L))
    /\ HarnessQuiet
    /\ secrets = [k \in SecretKeys |-> UNDEF]
    /\ sshAuthSock = "/tmp/agent.sock"
    /\ keyFiles \in [KeyPaths -> {UNDEF, "PEM"}]
    /\ ConnQuiet
    /\ currentProfileIndex \in Indices
    /\ statusBarText = UpdateStatusBar(ReadProfiles(file).value, currentProfileIndex)
    /\ notice = NoNotice
    /\ savedProfile = NoProfile
    /\ editPc = "idle" /\ editProfiles = <<>>
    /\ rmPc = "idle" /\ rmProfiles = <<>>
    /\ swPc = "idle" /\ swProfiles = <<>>
    /\ panelPc = "closed" /\ panelProfiles = <<>>
    /\ editingIndex = NullIndex
    /\ cmdCount = 0
    /\ OpQuiet
    /\ WalkQuiet

XferNext ==
    \/ DeployFile
    \/ DeployPutDone
    \/ DeployFailed
    \/ DownloadFile
    \/ DownloadTargetChosen
    \/ DownloadDismissed
    \/ DownloadGetDone
    \/ DownloadFailed
    \/ DeleteFile
    \/ DeleteConfirmed
    \/ DeleteDeclined
    \/ DeleteUnlinkDone
    \/ DeleteFailed
    \/ DiffFile
    \/ DiffGetDone
    \/ DiffFailed
    \/ DocumentSaved
    \/ AutoDeployPutDone
    \/ AutoDeployFailed
    \/ ConfigSettled
    \/ ClientReady
    \/ ClientError
    \/ SftpOpened
    \/ RemoveStart
    \/ \E index \in Indices : RemovePick(index)
    \/ RemoveCancel

SpecXfer == XferInit /\ [][XferNext]_vars

\* ------------------------------------------------------- uploadDirectory
\* The directory deploy of the first version of the extension
\* (src/unnamed/part_001): the `deploy` command and uploadDirectory.  A
\* local directory is the sequence of names that leads to it from the
\* directory the user picked; walkTree gives the entries fs.readdir yields
\* for it, in that order, each with what fs.stat says it is.
File(n) == [name |-> n, kind |-> "file"]
Dir(n) == [name |-> n, kind |-> "dir"]
Other(n) == [name |-> n, kind |-> "other"]

Root == <<>>

Trees ==
    {(Root :> <<>>),
     (Root :> <<File("x"), File("y")>>),
     (Root :> <<File("x"), Dir("b")>> @@ <<"b">> :> <<File("y")>>),
     (Root :> <<Dir("b"), File("x")>> @@ <<"b">> :> <<File("y"), File("z")>>),
     (Root :> <<Dir("b"), Other("s")>> @@ <<"b">> :> <<Dir("c")>>
        @@ <<"b", "c">> :> <<File("y")>>)}

Parent(d) == SubSeq(d, 1, Len(d) - 1)

\* remoteTarget of the deploy command: profile.remotePath with a '/' at
\* its end.
RemoteTarget == "/r/"

\* The remoteDir argument of the invocation for d, without the '/' that
\* the recursive call appends to remotePath.
RECURSIVE RemoteDirOfNoSeparator(_)
RemoteDirOfNoSeparator(d) ==
    IF d = Root THEN RemoteTarget ELSE RemoteDirOfNoSeparator(Parent(d)) \o d[Len(d)]

\* The remoteDir argument of the invocation for d: remoteTarget for the
\* top one, remotePath + '/' for a recursive one.
RECURSIVE RemoteDirOf(_)
RemoteDirOf(d) ==
    IF d = Root THEN RemoteTarget ELSE RemoteDirOf(Parent(d)) \o d[Len(d)] \o "/"

\* A call whose callback has not run yet, and an entry of the call log.
Call(op, d, n) == [op |-> op, dir |-> d, name |-> n]
Logged(op, d, n) == [op |-> op, dir |-> d, name |-> n, remote |-> RemoteDirOf(d) \o n]

EntryOf(d, n) == CHOOSE e \in {walkTree[d][j] : j \in 1..Len(walkTree[d])} : e.name = n

\* What a synchronous run of next() of invocation d, or of its cb(res),
\* ends in, the counters being I: fs.stat is called for the next entry of
\* some invocation, or the callback given to the top invocation is called.
RECURSIVE NextEffect(_, _), CbEffect(_, _, _)
NextEffect(I, d) ==
    IF I[d] >= Len(walkTree[d])
    THEN CbEffect(I, d, "ok")
    ELSE [kind |-> "stat", dir |-> d, res |-> "ok"]

CbEffect(I, d, res) ==
    IF d = Root
    THEN [kind |-> "top", dir |-> d, res |-> res]
    ELSE IF res = "err"
         THEN CbEffect(I, Parent(d), "err")
         ELSE NextEffect(I, Parent(d))

\* The callback the deploy command gives to uploadDirectory: the message,
\* conn.end(), reject or resolve.
TopCallback(res) ==
    /\ walkCb' = Append(walkCb, res)
    /\ notice' = IF res = "err"
                 THEN ErrorMsg("Directory upload failed: upload")
                 ELSE Info("Deployed folder to " \o opProfile.name)
    /\ opMessages' = Append(opMessages, notice')
    /\ clientOpen' = FALSE
    /\ opPc' = "finished"

\* The state after the callback of the call `done` has run to effect e.
Continue(I, e, done) ==
    /\ walkI' = IF e.kind = "stat" THEN [I EXCEPT ![e.dir] = @ + 1] ELSE I
    /\ walkPending' =
            (walkPending \ {done}) \cup
                IF e.kind = "stat"
                THEN {Call("stat", e.dir, walkTree[e.dir][I[e.dir] + 1].name)}
                ELSE {}
    /\ IF e.kind = "top"
       THEN TopCallback(e.res)
       ELSE UNCHANGED <<walkCb, notice, opMessages, clientOpen, opPc>>

Failed(op) == [walkFail EXCEPT !.ops = @ \cup {op}]

WalkFrame ==
    UNCHANGED <<file, harnessVars, envVars, connProfile, connPc, connConfig, connectCalls,
                connError, currentProfileIndex, statusBarText, savedProfile, editPc,
                editProfiles, rmPc, rmProfiles, swPc, swProfiles, panelPc, panelProfiles,
                editingIndex, cmdCount, opKind, opProfile, opError, walkTree>>

\* The deploy command for a directory, up to the call of uploadDirectory:
\* the profile, the connection, the sftp session (or its failure), statSync.
DeployDirectory ==
    LET profiles == ReadProfiles(file).value
    IN  /\ opPc = "idle"
        /\ Len(profiles) > 0
        /\ opKind' = "deploy"
        /\ opProfile' = ActiveProfile(profiles, currentProfileIndex)
        /\ \E outcome \in {"walk", "sftp", "connect"} :
            CASE outcome = "walk" ->
                    /\ clientOpen' = TRUE
                    /\ opPc' = "running"
                    /\ walkPending' = {Call("readdir", Root, "")}
                    /\ UNCHANGED <<notice, opMessages>>
              [] outcome = "sftp" ->
                    /\ notice' = ErrorMsg("SFTP error: sftp")
                    /\ opMessages' = Append(opMessages, notice')
                    /\ clientOpen' = FALSE
                    /\ opPc' = "finished"
                    /\ UNCHANGED walkPending
              [] OTHER ->
                    /\ notice' = ErrorMsg("SSH connection error: connect")
                    /\ opMessages' = Append(opMessages, notice')
                    /\ clientOpen' = FALSE
                    /\ opPc' = "finished"
                    /\ UNCHANGED walkPending
        /\ UNCHANGED <<file, harnessVars, envVars, connProfile, connPc, connConfig,
                       connectCalls, connError, currentProfileIndex, statusBarText,
                       savedProfile, editPc, editProfiles, rmPc, rmProfiles, swPc,
                       swProfiles, panelPc, panelProfiles, editingIndex, cmdCount,
                       opError, walkTree, walkI, walkIssued, walkFail, walkCb>>

\* The callback of fs.readdir(localDir): cb(err), or i = 0 and next().
ReaddirDone(d) ==
    LET done == Call("readdir", d, "")
    IN  /\ done \in walkPending
        /\ \E err \in BOOLEAN :
            IF err
            THEN /\ Continue(walkI, CbEffect(walkI, d, "err"), done)
                 /\ walkFail' = Failed("readdir")
            ELSE LET I == [walkI EXCEPT ![d] = 0]
                 IN  /\ Continue(I, NextEffect(I, d), done)
                     /\ UNCHANGED walkFail
        /\ UNCHANGED walkIssued
        /\ WalkFrame

\* The callback of fs.stat with the directory branch leaving out sftp.mkdir.
StatDoneNoMkdir(d, n) ==
    LET done == Call("stat", d, n)
        kind == EntryOf(d, n).kind
    IN  /\ done \in walkPending
        /\ \E err \in BOOLEAN :
            IF err
            THEN /\ Continue(walkI, CbEffect(walkI, d, "err"), done)
                 /\ walkFail' = Failed("stat")
                 /\ UNCHANGED walkIssued
            ELSE /\ UNCHANGED walkFail
                 /\ CASE kind = "file" ->
                            /\ walkIssued' = Append(walkIssued, Logged("fastPut", d, n))
                            /\ walkPending' = (walkPending \ {done}) \cup {Call("fastPut", d, n)}
                            /\ UNCHANGED <<walkI, walkCb, notice, opMessages, clientOpen, opPc>>
                      [] kind = "dir" ->
                            /\ walkPending' = (walkPending \ {done})
                                    \cup {Call("readdir", Append(d, n), "")}
                            /\ UNCHANGED <<walkIssued, walkI, walkCb, notice, opMessages,
                                           clientOpen, opPc>>
                      [] OTHER ->
                            /\ Continue(walkI, NextEffect(walkI, d), done)
                            /\ UNCHANGED walkIssued
        /\ WalkFrame

\* The callback of fs.stat(localPath): cb(err); sftp.fastPut for a file;
\* sftp.mkdir and, without waiting for it, uploadDirectory for a directory;
\* next() for anything else.
StatDone(d, n) ==
    LET done == Call("stat", d, n)
        kind == EntryOf(d, n).kind
    IN  /\ done \in walkPending
        /\ \E err \in BOOLEAN :
            IF err
            THEN /\ Continue(walkI, CbEffect(walkI, d, "err"), done)
                 /\ walkFail' = Failed("stat")
                 /\ UNCHANGED walkIssued
            ELSE /\ UNCHANGED walkFail
                 /\ CASE kind = "file" ->
                            /\ walkIssued' = Append(walkIssued, Logged("fastPut", d, n))
                            /\ walkPending' = (walkPending \ {done}) \cup {Call("fastPut", d, n)}
                            /\ UNCHANGED <<walkI, walkCb, notice, opMessages, clientOpen, opPc>>
                      [] kind = "dir" ->
                            /\ walkIssued' = Append(walkIssued, Logged("mkdir", d, n))
                            /\ walkPending' = (walkPending \ {done})
                                    \cup {Call("mkdir", d, n), Call("readdir", Append(d, n), "")}
                            /\ UNCHANGED <<walkI, walkCb, notice, opMessages, clientOpen, opPc>>
                      [] OTHER ->
                            /\ Continue(walkI, NextEffect(walkI, d), done)
                            /\ UNCHANGED walkIssued
        /\ WalkFrame

\* The callback of sftp.fastPut: cb(err), or next().
PutDone(d, n) ==
    LET done == Call("fastPut", d, n)
    IN  /\ done \in walkPending
        /\ \E err \in BOOLEAN :
            IF err
            THEN /\ Continue(walkI, CbEffect(walkI, d, "err"), done)
                 /\ walkFail' = IF walkFail.at = -1
                                THEN [at |-> Len(walkIssued), dir |-> d,
                                      ops |-> walkFail.ops \cup {"fastPut"}]
                                ELSE walkFail
            ELSE /\ Continue(walkI, NextEffect(walkI, d), done)
                 /\ UNCHANGED walkFail
        /\ UNCHANGED walkIssued
        /\ WalkFrame

\* The callback of sftp.mkdir: its error is ignored, next().
MkdirDone(d, n) ==
    LET done == Call("mkdir", d, n)
    IN  /\ done \in walkPending
        /\ \E err \in BOOLEAN :
            walkFail' = IF err THEN Failed("mkdir") ELSE walkFail
        /\ Continue(walkI, NextEffect(walkI, d), done)
        /\ UNCHANGED walkIssued
        /\ WalkFrame

\* One profile, the user about to deploy one of the directories.
WalkInit ==
    /\ file = ArrayFile(JSONStringifyList(
                  <<MkProfile("a", "22", "ssh-key", UNDEF, "false", UNDEF)>>))
    /\ HarnessQuiet
    /\ EnvQuiet
    /\ ConnQuiet
    /\ currentProfileIndex = InitialProfileIndex
    /\ statusBarText = UpdateStatusBar(ReadProfiles(file).value, InitialProfileIndex)
    /\ notice = NoNotice
    /\ savedProfile = NoProfile
    /\ editPc = "idle" /\ editProfiles = <<>>
    /\ rmPc = "idle" /\ rmProfiles = <<>>
    /\ swPc = "idle" /\ swProfiles = <<>>
    /\ panelPc = "closed" /\ panelProfiles = <<>>
    /\ editingIndex = NullIndex
    /\ cmdCount = 0
    /\ OpQuiet
    /\ walkTree \in Trees
    /\ walkI = [d \in DOMAIN walkTree |-> -1]
    /\ walkPending = {}
    /\ walkIssued = <<>>
    /\ walkFail = NoFailure
    /\ walkCb = <<>>

EntryNames == {"x", "y", "z", "b", "c", "s"}

WalkNext ==
    \/ DeployDirectory
    \/ \E d \in DOMAIN walkTree : ReaddirDone(d)
    \/ \E d \in DOMAIN walkTree, n \in EntryNames : StatDone(d, n)
    \/ \E d \in DOMAIN walkTree, n \in EntryNames : PutDone(d, n)
    \/ \E d \in DOMAIN walkTree, n \in EntryNames : MkdirDone(d, n)

SpecWalk == WalkInit /\ [][WalkNext]_vars

\* ------------------------------------------------ claims: secrets
\* The profile list in the deployments file.
Stored == ReadProfiles(file).value

\* C8 as stated: once a profile has been saved with a custom private key
\* and a non-empty passphrase, getSSHConfig for the profile read back from
\* storage fetches sftp-passphrase-<name> and attaches it next to the
\* private key.  (The secret store starts without passphrases: the one
\* found under the name was put there by such a save.)
C8_PassphraseAttached ==
    (Returned /\ connProfile.authMethod = "ssh-key"
              /\ Truthy(connProfile.privateKeyPath)
              /\ secrets[PassphraseKey(connProfile.name)] # UNDEF) =>
        /\ connConfig.privateKey # UNDEF
        /\ connConfig.passphrase = secrets[PassphraseKey(connProfile.name)]

\* Both secrets of `name` are gone after the step.
SecretsGone(name) ==
    /\ secrets'[PasswordKey(name)] = UNDEF
    /\ secrets'[PassphraseKey(name)] = UNDEF

\* C9: every profile removal, through the removeProfile command and through
\* the manage-profiles panel, deletes sftp-password-<name> and
\* sftp-passphrase-<name> of the removed profile, set or not, and ends
\* without an error.
C9_RemoveDeletesSecrets ==
    [][\A i \in Indices :
        /\ RemovePick(i) =>
            /\ SecretsGone(rmProfiles[i + 1].name)
            /\ rmPc' = "idle"
            /\ notice' = Info("Removed SFTP profile: " \o rmProfiles[i + 1].name)
        /\ PanelRemove(i) =>
            /\ SecretsGone(panelProfiles[i + 1].name)
            /\ editingIndex' = NullIndex]_vars

\* removeProfile has removed the only profile; the store holds no secret of
\* its name.
C9_Witness ==
    /\ notice = Info("Removed SFTP profile: a")
    /\ rmPc = "idle"
    /\ Stored = <<>>
    /\ secrets[PasswordKey("a")] = UNDEF
    /\ secrets[PassphraseKey("a")] = UNDEF

\* C10 as stated: after a profile with authMethod password is saved (add,
\* edit, manage-panel save), the secret store holds a password under
\* sftp-password-<name>, which a later getSSHConfig attaches.
C10_PasswordStoredOnSave ==
    (savedProfile.authMethod = "password"
        /\ \E i \in 1..Len(Stored) : Stored[i] = savedProfile) =>
        /\ secrets[PasswordKey(savedProfile.name)] # UNDEF
        /\ GetSSHConfig(savedProfile, secrets, keyFiles, sshAuthSock).config.password # UNDEF

\* The secret values of a run: what the user types into a passphrase box
\* and what the secret store holds.
SecretValues ==
    {"pp"} \cup {secrets[k] : k \in {x \in SecretKeys : secrets[x] # UNDEF}}

\* C11: the deployments file never holds a password or a passphrase: no
\* property of any stored profile is one of the run's secret values, so
\* the content written is the same whatever secrets the user enters.
C11_NoSecretInFile ==
    IsArrayFile(file) =>
        \A i \in 1..Len(file.items) : \A j \in 1..Len(file.items[i]) :
            /\ file.items[i][j][1] \notin {"password", "passphrase"}
            /\ file.items[i][j][2] \notin SecretValues

\* A profile was saved with a key file and a passphrase: the passphrase is
\* in the secret store, the profile is in the file.
C11_Witness ==
    \E i \in 1..Len(Stored) :
        /\ Stored[i].privateKeyPath = "/k"
        /\ secrets[PassphraseKey(Stored[i].name)] = "pp"

\* ------------------------------------------- claims: transfer handlers
\* C12 as stated: when a single-file operation has finished, on the
\* success path and on every failure path, the transport connection it
\* opened is closed.
C12_ConnectionClosed == opPc = "finished" => ~clientOpen

\* The handlers that report their outcome with a message.
Reporting == {"deployFile", "downloadFile", "deleteFile", "autoDeploy"}

\* C13: an invocation of deployFile, downloadFile, deleteFile or auto-deploy
\* that started a transfer shows no outcome message while it runs and
\* exactly one when it has finished: the success message, or the failure
\* message carrying the message of the error, be it from credential
\* resolution, from connecting or from the remote operation.
C13_OneOutcomeMessage ==
    opKind \in Reporting =>
        /\ opPc = "running" => opMessages = <<>>
        /\ opPc = "finished" =>
            /\ Len(opMessages) = 1
            /\ IF opError = ""
               THEN opMessages[1] = Info(SuccessText(opKind, opProfile.name))
               ELSE /\ opError \in {KeyReadError, "connect", "sftp", RemoteError(opKind)}
                    /\ opMessages[1] = ErrorMsg(FailureText(opKind, opError))

\* deleteFile has finished after credential resolution failed.
C13_Witness ==
    /\ opKind = "deleteFile"
    /\ opPc = "finished"
    /\ opError = KeyReadError
    /\ Len(opMessages) = 1

\* The element at index idx of L, or the first one when idx is out of range.
Expected(L, idx) == IF idx >= 0 /\ idx < Len(L) THEN L[idx + 1] ELSE L[1]

\* A transfer handler is invoked.
HandlerInvoked == DeployFile \/ DownloadFile \/ DeleteFile \/ DiffFile \/ DocumentSaved

\* C19: every transfer handler takes the profile at the active index of the
\* list it has just read, or the first profile when the index is out of
\* range, and connects with that profile; with an empty list it returns
\* without a connection or a credential lookup.  The status bar names the
\* profile chosen by the same rule.
C19_ActiveProfileFallback ==
    [][/\ HandlerInvoked =>
            IF Len(Stored) = 0
            THEN opPc' = "returned" /\ connPc' = "idle" /\ UNCHANGED connVars
            ELSE /\ opProfile' = Expected(Stored, currentProfileIndex)
                 /\ connPc' # "idle" => connProfile' = opProfile'
       /\ \A k \in OpKinds : Answered(k) => connProfile' = opProfile
       /\ \A i \in Indices : RemovePick(i) =>
            statusBarText' =
                LET L == Splice(rmProfiles, i)
                IN  IF Len(L) = 0
                    THEN "SFTP: No Profile"
                    ELSE "SFTP: " \o Expected(L, currentProfileIndex).name]_vars

\* A handler connects with the only profile while the active index points
\* past it.
C19_Witness ==
    /\ Len(Stored) = 1
    /\ currentProfileIndex = 1
    /\ opPc = "running"
    /\ connPc = "resolving"
    /\ connProfile = Stored[1]

\* C20: a document-save event opens a connection exactly when the list is
\* not empty and the active profile (first profile when the index is out of
\* range) has deployOnSave true, and then with that profile; the flags of the
\* other profiles play no part.
C20_DeployOnSaveGate ==
    [][DocumentSaved =>
        /\ connPc' = "resolving" <=>
                (Len(Stored) > 0
                    /\ Expected(Stored, currentProfileIndex).deployOnSave = "true")
        /\ connPc' = "resolving" =>
                connProfile' = Expected(Stored, currentProfileIndex)]_vars

\* A save event returned without a connection: the active profile has
\* deployOnSave false, another profile has it true.
C20_Witness ==
    /\ opKind = "autoDeploy"
    /\ opPc = "returned"
    /\ connPc = "idle"
    /\ Len(Stored) = 2
    /\ opProfile.deployOnSave = "false"
    /\ \E i \in 1..Len(Stored) : Stored[i].deployOnSave = "true"

\* ------------------------------------------------ claims: uploadDirectory
\* The entries of kind k in the tree, each as <<directory, name>>.
EntriesOf(k) ==
    UNION {{<<d, walkTree[d][j].name>> :
                j \in {i \in 1..Len(walkTree[d]) : walkTree[d][i].kind = k}} :
           d \in DOMAIN walkTree}

\* The positions of the call log that hold a call of op.
IssuedOf(op) == {j \in 1..Len(walkIssued) : walkIssued[j].op = op}

\* The path of entry n of directory d relative to the directory deployed.
RECURSIVE RelPath(_, _)
RelPath(d, n) == IF d = Root THEN n ELSE d[1] \o "/" \o RelPath(Tail(d), n)

\* uploadDirectory was called and no callback is outstanding.
WalkDone == opKind = "deploy" /\ walkCb # <<>> /\ walkPending = {}

\* Exactly one fastPut per regular file, to remoteTarget + relative path,
\* and no other fastPut; at most one mkdir per subdirectory.
UploadsExact ==
    /\ Cardinality(IssuedOf("fastPut")) = Cardinality(EntriesOf("file"))
    /\ \A f \in EntriesOf("file") :
        \E j \in IssuedOf("fastPut") :
            /\ walkIssued[j].dir = f[1]
            /\ walkIssued[j].name = f[2]
            /\ walkIssued[j].remote = RemoteTarget \o RelPath(f[1], f[2])
    /\ Cardinality(IssuedOf("mkdir")) <= Cardinality(EntriesOf("dir"))

IsPrefix(p, q) == Len(p) <= Len(q) /\ SubSeq(q, 1, Len(p)) = p

\* C15 as stated: after the first upload failure no fastPut or mkdir is
\* issued in the directory of the failure or below it, and the failure
\* reaches the callback of the top-level uploadDirectory.
C15_FailFast ==
    walkFail.at # -1 =>
        /\ \A j \in 1..Len(walkIssued) :
                j > walkFail.at => ~IsPrefix(walkFail.dir, walkIssued[j].dir)
        /\ walkPending = {} => \E j \in 1..Len(walkCb) : walkCb[j] = "err"

\* C16 as stated: at every moment of the walk at most one fastPut or mkdir
\* issued by it is outstanding.
C16_Sequential ==
    Cardinality({p \in walkPending : p.op \in {"fastPut", "mkdir"}}) <= 1

\* C17 as stated: when the deploy command has closed the connection and
\* reported the outcome of the walk, no call issued by the walk is
\* outstanding and, if it reported success, every file has been uploaded.
C17_ConnectionHeld ==
    (opKind = "deploy" /\ walkCb # <<>>) =>
        /\ \A p \in walkPending : p.op \notin {"fastPut", "mkdir"}
        /\ walkCb[1] = "ok" =>
            \A f \in EntriesOf("file") :
                /\ \E j \in IssuedOf("fastPut") :
                        walkIssued[j].dir = f[1] /\ walkIssued[j].name = f[2]
                /\ Call("fastPut", f[1], f[2]) \notin walkPending

\* C18: the mkdir for a subdirectory is issued before every fastPut and
\* mkdir whose target lies inside it.
C18_ParentFirst ==
    \A j \in 1..Len(walkIssued) :
        \A k \in 1..Len(walkIssued[j].dir) :
            \E i \in 1..(j - 1) :
                /\ walkIssued[i].op = "mkdir"
                /\ Append(walkIssued[i].dir, walkIssued[i].name)
                        = SubSeq(walkIssued[j].dir, 1, k)

\* A file two directories down has been put.
C18_Witness ==
    \E j \in IssuedOf("fastPut") : Len(walkIssued[j].dir) = 2

\* ------------------------------------------- deleteFile and switchProfile
\* deleteFile with its confirmation pending while the user switches the
\* active profile.
DeleteInit == XferInit

DeleteNext ==
    \/ DeleteFile
    \/ DeleteConfirmed
    \/ DeleteDeclined
    \/ DeleteUnlinkDone
    \/ DeleteFailed
    \/ ConfigSettled
    \/ ClientReady
    \/ ClientError
    \/ SftpOpened
    \/ SwitchStart
    \/ \E index \in Indices : SwitchPick(index)
    \/ SwitchCancel

SpecDelete == DeleteInit /\ [][DeleteNext]_vars

\* ------------------------------------------------- claims: deleteFile
\* C21: deleteFile opens its connection (and so issues the unlink) only in
\* the step in which the confirmation of that invocation is answered 'Yes';
\* the invocation itself and a dismissal leave the connection untouched.
\* The connection is made for the profile captured before the dialog was
\* shown, whatever the active profile has become in the meantime.
C21_DeleteAfterYes ==
    [][/\ DeleteFile =>
            /\ UNCHANGED connVars
            /\ Len(Stored) > 0 =>
                    /\ opPc' = "asking"
                    /\ opProfile' = Expected(Stored, currentProfileIndex)
       /\ DeleteDeclined => UNCHANGED connVars /\ opPc' = "returned"
       /\ (opKind' = "deleteFile" /\ connPc = "idle" /\ connPc' # "idle") =>
            /\ opKind = "deleteFile" /\ opPc = "asking" /\ opPc' = "running"
            /\ connProfile' = opProfile
       /\ (opKind' = "deleteFile" /\ connPc' # "idle") =>
            /\ opPc' = "running"
            /\ connProfile' = opProfile'
      ]_vars

\* The unlink is about to be sent for the profile of the dialog while
\* another profile has become the active one.
C21_Witness ==
    /\ opKind = "deleteFile"
    /\ opPc = "running"
    /\ connPc = "resolved"
    /\ clientOpen
    /\ connProfile = opProfile
    /\ Len(Stored) = 2
    /\ ActiveProfile(Stored, currentProfileIndex) # opProfile

\* ------------------------------------------ claims: the profile repository
\* C22 as stated: every mutation of the profile list (editProfile,
\* removeProfile, the panel's remove and save) is applied to the list as
\* the storage file holds it at that moment, never to an older copy.
C22_NeverCached ==
    [][/\ \A index \in Indices, name \in Names, portStr \in PortInputs,
             ans \in AuthAnswers :
            EditCommit(index, name, portStr, ans) => editProfiles = Stored
       /\ \A index \in Indices : RemovePick(index) => rmProfiles = Stored
       /\ \A index \in Indices : PanelRemove(index) => panelProfiles = Stored
       /\ \A name \in Names, portStr \in PortInputs, authMethod \in AuthMethods,
             deployOnSave \in BOOLEAN, idx \in {NullIndex} \cup Indices :
            PanelSave(name, portStr, authMethod, deployOnSave, idx) =>
                panelProfiles = Stored
      ]_vars


\* The three repository commands on their own: addProfile, editProfile and
\* removeProfile invoked in any order, each suspended at its prompts for as
\* long as the user takes.
RepoInit == CmdInit

RepoNext ==
    \/ \E name \in Names, portStr \in PortInputs, ans \in AuthAnswers :
            AddProfile(name, portStr, ans)
    \/ EditStart
    \/ \E index \in Indices, name \in Names, portStr \in PortInputs, ans \in AuthAnswers :
            EditCommit(index, name, portStr, ans)
    \/ EditCancel
    \/ RemoveStart
    \/ \E index \in Indices : RemovePick(index)
    \/ RemoveCancel

SpecRepo == RepoInit /\ [][RepoNext]_vars

\* editProfile resumes after its last prompt and saves (a dismissed prompt
\* leaves every variable but the command's own position alone).
EditCommitted == editPc = "prompting" /\ editPc' = "idle" /\ ~EditCancel

\* removeProfile resumes after its pick and removes.
RemovePicked == rmPc = "prompting" /\ rmPc' = "idle" /\ ~RemoveCancel

\* C23: a command suspended at a prompt writes, when it resumes, the list
\* it read before the prompt: editProfile stores its copy with the one
\* profile replaced and removeProfile its copy with the one profile
\* spliced out, whatever the file holds by then.  A profile added in
\* between, with its success reported, is therefore absent from the file
\* afterwards.
C23_LostUpdate ==
    [][/\ EditCommitted =>
            LET written == Stored'
            IN  \E index \in 0..(Len(editProfiles) - 1) :
                    written = ReplaceAt(editProfiles, index, savedProfile')
       /\ RemovePicked =>
            LET written == Stored'
            IN  \E index \in 0..(Len(rmProfiles) - 1) :
                    written = Splice(rmProfiles, index)
      ]_vars

\* Two commands were invoked in all, editProfile on the stored password
\* profile "a" and addProfile of "b" with a key and a passphrase (the
\* passphrase is in the secret store; an edit that had renamed a key
\* profile would have kept its key path).  Both reported success and the
\* file holds "a" alone.
C23_Witness ==
    /\ cmdCount = 2
    /\ editPc = "idle"
    /\ notice = Info("Edited SFTP profile: a")
    /\ secrets[PassphraseKey("b")] = "pp"
    /\ Len(Stored) = 1
    /\ Stored[1].name = "a"
    /\ Stored[1].privateKeyPath = UNDEF

\* The names the profiles of the local list of editProfile could have had
\* before a save that renamed one of them to the name now saved.
RenamedFrom ==
    {editProfiles[i].name : i \in {j \in 1..Len(editProfiles) :
        /\ editProfiles[j].name # savedProfile'.name
        /\ Stored' = ReplaceAt(editProfiles, j - 1, savedProfile')}}

\* C24: when editProfile saves a profile under another name, both secret
\* entries of the old name keep their values, the password entry of the new
\* name keeps its value (nothing is copied to it), and the passphrase entry
\* of the new name is what it was or what the passphrase box of this edit
\* put there ("pp" typed, entry deleted when left empty).
C24_RenameKeepsSecrets ==
    [][EditCommitted =>
            \A old \in RenamedFrom :
                /\ secrets'[PasswordKey(old)] = secrets[PasswordKey(old)]
                /\ secrets'[PassphraseKey(old)] = secrets[PassphraseKey(old)]
                /\ secrets'[PasswordKey(savedProfile'.name)]
                        = secrets[PasswordKey(savedProfile'.name)]
                /\ secrets'[PassphraseKey(savedProfile'.name)]
                        \in {secrets[PassphraseKey(savedProfile'.name)], "pp", UNDEF}
      ]_vars

\* The stored profile "a", which has a password in the secret store, was
\* renamed to "b": the password is still under sftp-password-a and there is
\* none under sftp-password-b.
C24_Witness ==
    /\ notice = Info("Edited SFTP profile: b")
    /\ cmdCount = 1
    /\ Len(Stored) = 1
    /\ Stored[1].name = "b"
    /\ secrets[PasswordKey("a")] = "s3cr3t"
    /\ secrets[PasswordKey("b")] = UNDEF

\* C25 as stated: every stored profile with a privateKeyPath has authMethod
\* ssh-key, and a profile saved by editProfile has a privateKeyPath only if
\* a custom key file was chosen in that edit.
C25_KeyPathOnlyWithCustomKey ==
    [][/\ \A k \in 1..Len(Stored') :
            Stored'[k].privateKeyPath # UNDEF => Stored'[k].authMethod = "ssh-key"
       /\ (editPc = "prompting" /\ editPc' = "idle") =>
            \A index \in Indices, name \in Names, portStr \in PortInputs,
               ans \in AuthAnswers :
                EditCommit(index, name, portStr, ans) =>
                    (savedProfile'.privateKeyPath # UNDEF => CustomKeyChosen(ans))
      ]_vars

\* C26 as stated: every step that completes a profile switch or rewrites
\* the profile list (add, edit, remove, by a command or by the panel; these
\* are the steps that write the file) leaves the status bar naming the
\* active profile of the stored list, first profile when the index is out
\* of range, or 'SFTP: No Profile' when the stored list is empty.
C26_StatusBarFollows ==
    [][((\E index \in Indices : SwitchPick(index)) \/ file' # file) =>
            statusBarText' = UpdateStatusBar(Stored', currentProfileIndex')
      ]_vars

\* ------------------------------------- claims: uploadDirectory's callback
\* C27 as stated: the completion callback that the deploy command hands to
\* uploadDirectory runs at most once, and it has run by the time no call of
\* the walk is outstanding any more.
C27_CallbackOnce ==
    /\ Len(walkCb) <= 1
    /\ (opKind = "deploy" /\ opPc = "running" /\ walkPending = {}) => walkCb # <<>>

\* ------------------------------------------------- claims: addProfile
\* addProfile invocations among themselves.  All the prompts of an
\* invocation come before its readProfiles and nothing is awaited between
\* that read and writeProfiles, so however the prompts of several
\* invocations overlap, their saves take place one after the other.
AddInit == CmdInit

AddNext ==
    \E name \in Names, portStr \in PortInputs, ans \in AuthAnswers :
        AddProfile(name, portStr, ans)

SpecAdd == AddInit /\ [][AddNext]_vars

RemoveList ==
    <<MkProfile("a", "22", "ssh-key", "/k", "false", UNDEF),
      MkProfile("b", "22", "ssh-key", "/k", "false", UNDEF),
      MkProfile("a", "2222", "ssh-key", "/k", "false", UNDEF)>>

RemoveIndices == 0..(Len(RemoveList) - 1)

RemoveInit ==
    /\ file = ArrayFile(JSONStringifyList(RemoveList))
    /\ HarnessQuiet
    /\ secrets = [k \in SecretKeys |-> UNDEF]
    /\ sshAuthSock = "/tmp/agent.sock"
    /\ keyFiles = [k \in KeyPaths |-> "PEM"]
    /\ ConnQuiet
    /\ currentProfileIndex \in RemoveIndices
    /\ statusBarText = UpdateStatusBar(ReadProfiles(file).value, currentProfileIndex)
    /\ notice = NoNotice
    /\ savedProfile = NoProfile
    /\ editPc = "idle" /\ editProfiles = <<>>
    /\ rmPc = "idle" /\ rmProfiles = <<>>
    /\ swPc = "idle" /\ swProfiles = <<>>
    /\ panelPc = "closed" /\ panelProfiles = <<>>
    /\ editingIndex = NullIndex
    /\ cmdCount = 0
    /\ OpQuiet
    /\ WalkQuiet

RemoveNext ==
    \/ RemoveStart
    \/ \E index \in RemoveIndices : RemovePick(index)
    \/ RemoveCancel
    \/ PanelOpen
    \/ \E index \in RemoveIndices : PanelRemove(index)
    \/ DeployFile
    \/ ConfigSettled
    \/ ClientReady
    \/ ClientError
    \/ SftpOpened
    \/ DeployPutDone
    \/ DeployFailed

SpecRemove == RemoveInit /\ [][RemoveNext]_vars

\* The index of the active profile of list L: the active index, or 0 when
\* it is out of range.
ActiveIndex(L) ==
    IF currentProfileIndex >= 0 /\ currentProfileIndex < Len(L)
    THEN currentProfileIndex
    ELSE 0

\* C29 as stated: when removeProfile or the panel removes, from the list as
\* stored, a profile at an index other than the active one, the profile the
\* active index designates afterwards (the one the next transfer connects
\* with) is the profile that was active before, and after removeProfile the
\* status bar names it.
C29_ActiveProfileKept ==
    [][\A index \in RemoveIndices :
        /\ (RemovePick(index) /\ rmProfiles = Stored /\ index # ActiveIndex(Stored)) =>
                /\ Expected(Stored', currentProfileIndex')
                        = Expected(Stored, currentProfileIndex)
                /\ statusBarText' = "SFTP: " \o Expected(Stored, currentProfileIndex).name
        /\ (PanelRemove(index) /\ panelProfiles = Stored /\ index # ActiveIndex(Stored)) =>
                Expected(Stored', currentProfileIndex')
                    = Expected(Stored, currentProfileIndex)
      ]_vars

\* ------------------------------------------------ the manage-profiles panel
\* The panel at work on a stored list with a custom-key profile "a" and a
\* password profile "b": closed, or already open on the list as stored.
PanelProfiles ==
    {MkProfile("a", "22", "ssh-key", "/k", "false", UNDEF),
     MkProfile("b", "22", "password", UNDEF, "false", UNDEF)}

PanelLists == SeqUpTo(PanelProfiles, MaxProfiles)

PanelInit ==
    /\ \E L \in PanelLists : file = ArrayFile(JSONStringifyList(L))
    /\ HarnessQuiet
    /\ secrets = [k \in SecretKeys |-> UNDEF]
    /\ sshAuthSock = "/tmp/agent.sock"
    /\ keyFiles = [k \in KeyPaths |-> "PEM"]
    /\ ConnQuiet
    /\ currentProfileIndex = InitialProfileIndex
    /\ statusBarText = UpdateStatusBar(ReadProfiles(file).value, InitialProfileIndex)
    /\ notice = NoNotice
    /\ savedProfile = NoProfile
    /\ editPc = "idle" /\ editProfiles = <<>>
    /\ rmPc = "idle" /\ rmProfiles = <<>>
    /\ swPc = "idle" /\ swProfiles = <<>>
    /\ \/ panelPc = "closed" /\ panelProfiles = <<>>
       \/ panelPc = "open" /\ panelProfiles = ReadProfiles(file).value
    /\ editingIndex = NullIndex
    /\ cmdCount = 0
    /\ OpQuiet
    /\ WalkQuiet

PanelNext ==
    \/ PanelOpen
    \/ \E index \in Indices : PanelEdit(index)
    \/ \E index \in Indices : PanelRemove(index)
    \/ \E name \in Names, portStr \in PortInputs, authMethod \in AuthMethods,
          deployOnSave \in BOOLEAN, idx \in {NullIndex} \cup Indices :
            PanelSave(name, portStr, authMethod, deployOnSave, idx)

SpecPanel == PanelInit /\ [][PanelNext]_vars

\* C30 as stated: when the panel saves the form over an existing profile of
\* the list as stored, the stored privateKeyPath of that profile is the same
\* after the save as before it.
C30_PanelSaveKeepsKeyPath ==
    [][\A name \in Names, portStr \in PortInputs, authMethod \in AuthMethods,
          deployOnSave \in BOOLEAN, idx \in Indices :
            (PanelSave(name, portStr, authMethod, deployOnSave, idx)
                    /\ panelProfiles = Stored) =>
                Stored'[idx + 1].privateKeyPath = Stored[idx + 1].privateKeyPath
      ]_vars

====
